---- MODULE Spec2Model ----
(***************************************************************************)
(* todo-proxy: the per-user task-list synchronisation hub.                 *)
(*                                                                         *)
(* The module models src/src/task_updates.rs: the reducer apply_operation, *)
(* the websocket session manage_updates_ws (handshake, get-or-create of    *)
(* the per-user cell, joined loop) and the inbound-operation handler       *)
(* handle_ws_client_op, over a store of checkpoints and operation records  *)
(* and a tokio broadcast channel per cell.                                 *)
(*                                                                         *)
(* Two specifications:                                                     *)
(*   Spec       the sessions, the registry, the cells and the store;       *)
(*   SpecApply  the reducer alone, over every operation variant.           *)
(***************************************************************************)
EXTENDS Integers, Sequences, FiniteSets, TLC

\***************************************************************************
\* Bounds of the model
\***************************************************************************

\* operations accepted from clients (log records appended) in one run
MaxOps == 2

\* capacity of a cell's broadcast channel, scaled down from channel(1000)
Capacity == 1

\* longest live list of the snapshots the reducer specification starts from
MaxLive == 4

\* longest finished list of the snapshots the reducer specification starts from
MaxFinished == 1

\* seconds the clock of the heartbeat specification runs
MaxTime == 18

\* client frames that may wait in the message stream of the heartbeat
\* specification
MaxInbox == 2

\* connections in the lock specification
MaxLockSessions == 3

\* connections the pool of the lock specification hands out at a time: the
\* pool of main.rs scaled down below the number of connections, so that
\* sessions wait for it
MaxPool == 2

\***************************************************************************
\* Program constants
\***************************************************************************

\* deadpool max_size
PoolMaxSize == 16

\* seconds between heartbeat ticks
HEARTBEAT_INTERVAL == 5

\* seconds without a ping or pong from the client after which a tick closes
CLIENT_TIMEOUT == 10

\***************************************************************************
\* Data model (todoproxy_api): tasks, snapshots, operations
\***************************************************************************

TaskIds == {"a", "b", "c", "d"}

Values == {"x", "y"}

Statuses == {"Succeeded", "Failed"}

LiveTask(id, value) == [id |-> id, value |-> value]

FinishedTask(id, value, status) == [id |-> id, value |-> value, status |-> status]

StateSnapshot(live, finished) == [live |-> live, finished |-> finished]

EmptySnapshot == StateSnapshot(<<>>, <<>>)

\* WebsocketOp, one constructor per variant
OverwriteState(s) == [tag |-> "OverwriteState", snapshot |-> s]

LiveTaskInsNew(id, value, position) ==
    [tag |-> "LiveTaskInsNew", live_task_id |-> id, value |-> value, position |-> position]

LiveTaskInsRestore(fid) == [tag |-> "LiveTaskInsRestore", finished_task_id |-> fid]

LiveTaskEdit(id, value) == [tag |-> "LiveTaskEdit", live_task_id |-> id, value |-> value]

LiveTaskDel(id) == [tag |-> "LiveTaskDel", live_task_id |-> id]

LiveTaskDelIns(del, ins) ==
    [tag |-> "LiveTaskDelIns", live_task_id_del |-> del, live_task_id_ins |-> ins]

FinishedTaskPush(fid, value, status) ==
    [tag |-> "FinishedTaskPush", finished_task_id |-> fid, value |-> value, status |-> status]

FinishedTaskPushComplete(id, fid, status) ==
    [tag |-> "FinishedTaskPushComplete", live_task_id |-> id, finished_task_id |-> fid,
     status |-> status]

\***************************************************************************
\* Vec / VecDeque primitives, with their failure conditions.  Indices are
\* 0-based as in the source; sequences are 1-based.
\***************************************************************************

\* iter().position(|x| x.id == id): index of the first match, or -1 for None
Position(seq, id) ==
    IF \E i \in 1..Len(seq) : seq[i].id = id
    THEN (CHOOSE i \in 1..Len(seq) :
              /\ seq[i].id = id
              /\ \A j \in 1..(i - 1) : seq[j].id # id) - 1
    ELSE -1

\* Vec::insert / VecDeque::insert panic when index > len
InsertPanics(seq, index) == index > Len(seq)

InsertAt(seq, index, x) ==
    SubSeq(seq, 1, index) \o <<x>> \o SubSeq(seq, index + 1, Len(seq))

\* Vec::remove panics, VecDeque::remove(..).unwrap() panics, when index >= len
RemovePanics(seq, index) == index < 0 \/ index >= Len(seq)

RemoveAt(seq, index) ==
    SubSeq(seq, 1, index) \o SubSeq(seq, index + 2, Len(seq))

\* VecDeque::retain(|x| x.id != id)
RetainNot(seq, id) ==
    LET Keep(x) == x.id # id IN SelectSeq(seq, Keep)

\* the outcome of one reducer arm: the snapshot it leaves and whether it panicked
Done(live, finished) == [live |-> live, finished |-> finished, panic |-> FALSE]

Panic(snap) == [live |-> snap.live, finished |-> snap.finished, panic |-> TRUE]

\***************************************************************************
\* apply_operation, one operator per match arm
\***************************************************************************

ApplyOverwriteState(snap, op) == Done(op.snapshot.live, op.snapshot.finished)

ApplyLiveTaskInsNew_NoAppend(snap, op) ==
    IF op.position < Len(snap.live)
    THEN IF InsertPanics(snap.live, op.position)
         THEN Panic(snap)
         ELSE Done(InsertAt(snap.live, op.position, LiveTask(op.live_task_id, op.value)),
                   snap.finished)
    ELSE Done(snap.live, snap.finished)

ApplyLiveTaskInsNew_OffByOne(snap, op) ==
    IF op.position <= Len(snap.live) + 1
    THEN IF InsertPanics(snap.live, op.position)
         THEN Panic(snap)
         ELSE Done(InsertAt(snap.live, op.position, LiveTask(op.live_task_id, op.value)),
                   snap.finished)
    ELSE Done(snap.live, snap.finished)

ApplyLiveTaskInsNew(snap, op) ==
    IF op.position <= Len(snap.live)
    THEN IF InsertPanics(snap.live, op.position)
         THEN Panic(snap)
         ELSE Done(InsertAt(snap.live, op.position, LiveTask(op.live_task_id, op.value)),
                   snap.finished)
    ELSE Done(snap.live, snap.finished)

ApplyLiveTaskInsRestore_PushBack(snap, op) ==
    LET position == Position(snap.finished, op.finished_task_id) IN
    IF position >= 0
    THEN LET task == snap.finished[position + 1] IN
         Done(Append(snap.live, LiveTask(task.id, task.value)),
              RemoveAt(snap.finished, position))
    ELSE Done(snap.live, snap.finished)

ApplyLiveTaskInsRestore(snap, op) ==
    LET position == Position(snap.finished, op.finished_task_id) IN
    IF position >= 0
    THEN IF RemovePanics(snap.finished, position)
         THEN Panic(snap)
         ELSE LET f == snap.finished[position + 1] IN
              Done(<<LiveTask(f.id, f.value)>> \o snap.live,
                   RemoveAt(snap.finished, position))
    ELSE Done(snap.live, snap.finished)

ApplyLiveTaskEdit(snap, op) ==
    LET pos == Position(snap.live, op.live_task_id) IN
    IF pos >= 0
    THEN Done([snap.live EXCEPT ![pos + 1].value = op.value], snap.finished)
    ELSE Done(snap.live, snap.finished)

ApplyLiveTaskDel(snap, op) ==
    Done(RetainNot(snap.live, op.live_task_id), snap.finished)

ApplyLiveTaskDelIns_NoAdjust(snap, op) ==
    LET ins_pos == Position(snap.live, op.live_task_id_ins)
        del_pos == Position(snap.live, op.live_task_id_del)
    IN
    IF ins_pos >= 0 /\ del_pos >= 0
    THEN LET rest == RemoveAt(snap.live, del_pos) IN
         IF RemovePanics(snap.live, del_pos) \/ InsertPanics(rest, ins_pos)
         THEN Panic(snap)
         ELSE Done(InsertAt(rest, ins_pos, snap.live[del_pos + 1]), snap.finished)
    ELSE Done(snap.live, snap.finished)

ApplyLiveTaskDelIns(snap, op) ==
    LET ins_pos == Position(snap.live, op.live_task_id_ins)
        del_pos == Position(snap.live, op.live_task_id_del)
    IN
    IF ins_pos >= 0 /\ del_pos >= 0
    THEN LET ins == IF ins_pos > del_pos THEN ins_pos - 1 ELSE ins_pos
             rest == RemoveAt(snap.live, del_pos)
         IN
         IF RemovePanics(snap.live, del_pos) \/ InsertPanics(rest, ins)
         THEN Panic(snap)
         ELSE Done(InsertAt(rest, ins, snap.live[del_pos + 1]), snap.finished)
    ELSE Done(snap.live, snap.finished)

ApplyFinishedTaskPush(snap, op) ==
    Done(snap.live,
         Append(snap.finished, FinishedTask(op.finished_task_id, op.value, op.status)))

ApplyFinishedTaskPushComplete(snap, op) ==
    LET pos_in_live == Position(snap.live, op.live_task_id) IN
    IF pos_in_live >= 0
    THEN IF RemovePanics(snap.live, pos_in_live)
         THEN Panic(snap)
         ELSE Done(RemoveAt(snap.live, pos_in_live),
                   Append(snap.finished,
                          FinishedTask(op.finished_task_id,
                                       snap.live[pos_in_live + 1].value, op.status)))
    ELSE Done(snap.live, snap.finished)

\* the match of apply_operation: the outcome (snapshot and panic flag)
apply_outcome(snap, op) ==
    CASE op.tag = "OverwriteState" -> ApplyOverwriteState(snap, op)
      [] op.tag = "LiveTaskInsNew" -> ApplyLiveTaskInsNew(snap, op)
      [] op.tag = "LiveTaskInsRestore" -> ApplyLiveTaskInsRestore(snap, op)
      [] op.tag = "LiveTaskEdit" -> ApplyLiveTaskEdit(snap, op)
      [] op.tag = "LiveTaskDel" -> ApplyLiveTaskDel(snap, op)
      [] op.tag = "LiveTaskDelIns" -> ApplyLiveTaskDelIns(snap, op)
      [] op.tag = "FinishedTaskPush" -> ApplyFinishedTaskPush(snap, op)
      [] op.tag = "FinishedTaskPushComplete" -> ApplyFinishedTaskPushComplete(snap, op)

\* apply_operation(&mut snapshot, op): the snapshot afterwards
apply_operation(snap, op) ==
    LET r == apply_outcome(snap, op) IN StateSnapshot(r.live, r.finished)

\* the fold of apply_operation over a sequence of operations
RECURSIVE Fold(_, _)
Fold(snap, ops) ==
    IF ops = <<>> THEN snap ELSE Fold(apply_operation(snap, Head(ops)), Tail(ops))

\***************************************************************************
\* Wire and storage encoding (serde_json, externally tagged variants)
\***************************************************************************

OpTags ==
    {"OverwriteState", "LiveTaskInsNew", "LiveTaskInsRestore", "LiveTaskEdit", "LiveTaskDel",
     "LiveTaskDelIns", "FinishedTaskPush", "FinishedTaskPushComplete"}

\* serde_json::to_string(&op): {"Variant": {fields}}; OverwriteState is a newtype
\* variant, its body is the snapshot object itself
ToJson(op) ==
    [t \in {op.tag} |->
        IF op.tag = "OverwriteState"
        THEN op.snapshot
        ELSE [f \in (DOMAIN op) \ {"tag"} |-> op[f]]]

\* whether serde_json::from_str::<WebsocketOp> accepts the text
IsOpJson(j) == Cardinality(DOMAIN j) = 1 /\ (DOMAIN j) \subseteq OpTags

\* serde_json::from_str::<WebsocketOp>(text), for an accepted text
FromJson(j) ==
    LET t == CHOOSE k \in DOMAIN j : TRUE IN
    IF t = "OverwriteState"
    THEN OverwriteState(j[t])
    ELSE [f \in (DOMAIN j[t]) \cup {"tag"} |-> IF f = "tag" THEN t ELSE j[t][f]]

\* the client's envelope {"WebsocketOpMessage": <Operation>}
OpMessage(op) == [WebsocketOpMessage |-> ToJson(op)]

\* whether serde_json::from_str::<request::WebsocketOpMessage> accepts the text
IsOpMessage(text) ==
    /\ DOMAIN text = {"WebsocketOpMessage"}
    /\ IsOpJson(text.WebsocketOpMessage)

\* the handshake text {"api_key": "<string>"}
InitMessage(k) == [api_key |-> k]

IsInitMessage(text) == DOMAIN text = {"api_key"}

\* a text frame that is no JSON of either shape
Garbage == [garbage |-> "not json"]

\***************************************************************************
\* State
\***************************************************************************

\* the connections of one process lifetime
Sessions == {1, 2}

Users == {1, 2}

ApiKeys == {"key1", "key2", "bad"}

\* no session (a free mutex), no user
None == 0

\* the connections of the lock specification
LockSessions == 1..MaxLockSessions

\* no checkpoint (Option::None of get_recent_by_user_id, an unset local)
NoCheckpoint == <<>>

VARIABLES
    \* store: the checkpoint relation, per user the jsonval of its records in
    \* insertion order; the k-th record of user u has checkpoint_id <<u, k>>
    checkpoints,
    \* store: the operation relation, per checkpoint_id the jsonval of its
    \* records in insertion order
    operations,
    \* AppData.user_worker_data: user id -> PerUserWorkerData
    \*   [snapshot, checkpoint_id, updates_tx], updates_tx being every value sent
    \*   on the cell's broadcast channel so far, in order; history: base, the
    \*   number of operation records folded in when the cell was built
    user_worker_data,
    \* holder of the registry mutex (None when free)
    registry_mutex,
    \* holder of each user's cell mutex (None when free)
    cell_mutex,
    \* per session: the locals of manage_updates_ws and handle_ws_client_op;
    \*   out: the text frames sent to the client so far, in order;
    \*   history of the connection: joinPos, where its receiver was subscribed,
    \*   seen, the channel positions it forwarded, skipped, those a lag
    \*   skipped, mine, those it published itself
    session,
    \* the reducer specification: the snapshot apply_operation is called on,
    \* the operation applied to it (NoOp before the call), the snapshot it
    \* leaves, and whether the call panicked
    snapshot,
    applied,
    result,
    panicked,
    \* the heartbeat specification: one session's joined loop against a clock
    \* of whole seconds:
    \*   pc, "loop" (awaiting joint_stream.next()), "busy" (awaiting
    \*     handle_ws_client_op) or "closed";
    \*   now, the clock; last_heartbeat, the local of manage_updates_ws;
    \*   next_tick, when the interval's next tick is due; inbox, the client
    \*   frames received and not yet taken from the message stream;
    \*   history: client_last, when the client last sent a ping or pong;
    \*   late, whether the client ever let more than CLIENT_TIMEOUT pass
    \*   without one; stalled, whether the clock ever moved while the session
    \*   was busy; pings, the pings sent; forwarded, whether a broadcast value
    \*   was forwarded to the client; closed_by, what closed the session
    heartbeat,
    \* the lock specification: the connections' places with respect to the
    \* registry mutex, the cell mutexes and the connection pool:
    \*   pc, per connection where it is; user, per connection its user;
    \*   registry, the holder of the registry mutex; cell, per user the holder
    \*   of its cell mutex; cells, the users that have a cell
    locks

vars ==
    <<checkpoints, operations, user_worker_data, registry_mutex, cell_mutex, session,
      snapshot, applied, result, panicked, heartbeat, locks>>

storeVars == <<checkpoints, operations>>

hubVars ==
    <<checkpoints, operations, user_worker_data, registry_mutex, cell_mutex, session>>

applyVars == <<snapshot, applied, result, panicked>>

\***************************************************************************
\* The store (checkpoint_service, operation_service): relations with serial
\* ids, read back in insertion order
\***************************************************************************

\* checkpoint_service::get_recent_by_user_id: id of the user's newest checkpoint
get_recent_by_user_id(user_id) ==
    IF checkpoints[user_id] = <<>> THEN NoCheckpoint ELSE <<user_id, Len(checkpoints[user_id])>>

\* checkpoint_service::add: the relation with the new record
checkpoint_add(user_id, snap) == [checkpoints EXCEPT ![user_id] = Append(@, snap)]

\* the id checkpoint_service::add gives the new record
checkpoint_add_id(user_id) == <<user_id, Len(checkpoints[user_id]) + 1>>

\* the jsonval of a checkpoint record
checkpoint_jsonval(checkpoint_id) == checkpoints[checkpoint_id[1]][checkpoint_id[2]]

\* operation_service::get_operations_since: the checkpoint's records, in order
get_operations_since(checkpoint_id) ==
    IF checkpoint_id \in DOMAIN operations THEN operations[checkpoint_id] ELSE <<>>

\* operation_service::add: the relation with the new record
operation_add(checkpoint_id, op) ==
    [c \in (DOMAIN operations) \cup {checkpoint_id} |->
        IF c = checkpoint_id
        THEN Append(get_operations_since(checkpoint_id), ToJson(op))
        ELSE operations[c]]

\* number of operation records in the store
OperationCount ==
    LET RECURSIVE Sum(_)
        Sum(S) == IF S = {} THEN 0
                  ELSE LET c == CHOOSE x \in S : TRUE IN Len(operations[c]) + Sum(S \ {c})
    IN Sum(DOMAIN operations)

\* the operations decoded from a sequence of records
RECURSIVE Decode(_)
Decode(records) ==
    IF records = <<>> THEN <<>> ELSE <<FromJson(Head(records))>> \o Decode(Tail(records))

\* lines 179-187: the snapshot of a checkpoint with its operations folded in
LoadSnapshot(checkpoint_id) ==
    Fold(checkpoint_jsonval(checkpoint_id), Decode(get_operations_since(checkpoint_id)))

\***************************************************************************
\* Auth collaborator
\***************************************************************************

\* get_user_if_api_key_valid: the user of a key, None for an unknown key
AuthUser(api_key) ==
    CASE api_key = "key1" -> 1
      [] api_key = "key2" -> 2
      [] OTHER -> None

\***************************************************************************
\* Initial state: main() has built AppData, nobody is connected
\***************************************************************************

\* the close reason of a connection still open; of a closed one: the code and
\* description of the CloseReason ("NoReason" for None) and, as history, the
\* place of the session when it closed
NoClose == [code |-> "Open", description |-> "", from |-> ""]

NoOp == [tag |-> "NoOp"]

FreshSession ==
    [pc |-> "handshake", api_key |-> "", user |-> None, recent_checkpoint |-> NoCheckpoint,
     op |-> NoOp, once |-> <<>>, rx |-> 0, close |-> NoClose,
     out |-> <<>>, joinPos |-> 0, seen |-> <<>>, skipped |-> {}, mine |-> {}]

\* lines 39, 50: last_heartbeat = Instant::now(); the interval's first tick is
\* due at once
InitHeartbeat ==
    [pc |-> "loop", now |-> 0, last_heartbeat |-> 0, next_tick |-> 0, inbox |-> <<>>,
     client_last |-> 0, late |-> FALSE, stalled |-> FALSE, pings |-> 0, forwarded |-> FALSE,
     closed_by |-> ""]

\* nobody is connected, every mutex is free, the registry is empty
InitLocks ==
    [pc |-> [s \in LockSessions |-> "idle"], user |-> [s \in LockSessions |-> None],
     registry |-> None, cell |-> [u \in Users |-> None], cells |-> {}]

InitHub ==
    /\ checkpoints = [u \in Users |-> <<>>]
    /\ operations = <<>>
    /\ user_worker_data = <<>>
    /\ registry_mutex = None
    /\ cell_mutex = [u \in Users |-> None]
    /\ session = [s \in Sessions |-> FreshSession]

Init ==
    /\ InitHub
    /\ snapshot = EmptySnapshot
    /\ applied = NoOp
    /\ result = EmptySnapshot
    /\ panicked = FALSE
    /\ heartbeat = InitHeartbeat
    /\ locks = InitLocks

\***************************************************************************
\* Inputs
\***************************************************************************

\* the operations clients submit in the hub specification
ClientOps ==
    {LiveTaskInsNew("a", "x", 0), FinishedTaskPushComplete("a", "c", "Succeeded")}

\* actix_ws::Message as the handshake loop may receive it; "ProtocolError" is
\* the Err item of the message stream
HandshakeFrames ==
    {[kind |-> "Text", text |-> InitMessage(k)] : k \in ApiKeys}
        \cup {[kind |-> "Text", text |-> Garbage]}
        \cup {[kind |-> k, text |-> Garbage] :
                k \in {"Binary", "Close", "Ping", "Pong", "Continuation", "Nop", "ProtocolError"}}

\* the same for the joined loop
JoinedFrames ==
    {[kind |-> "Text", text |-> OpMessage(op)] : op \in ClientOps}
        \cup {[kind |-> "Text", text |-> Garbage]}
        \cup {[kind |-> k, text |-> Garbage] :
                k \in {"Binary", "Close", "Ping", "Pong", "Continuation", "Nop", "ProtocolError"}}

\***************************************************************************
\* Helpers over the session records
\***************************************************************************

\* the session's locals with the connection closed: session.close(reason),
\* the function returns and its locals (receiver, guards, connection) drop
Closed(s, code, description) ==
    [session EXCEPT ![s] = [FreshSession EXCEPT
                               !.pc = "closed",
                               !.close = [code |-> code, description |-> description,
                                          from |-> session[s].pc]]]

\* sessions holding a pooled connection (from pool.get() to the end of its scope)
HoldsConnection(s) ==
    session[s].pc \in {"v_getcp", "v_addcp", "v_getops", "op_lock", "op_add", "op_apply", "op_send"}

ConnectionsInUse == Cardinality({s \in Sessions : HoldsConnection(s)})

\* operations accepted and not yet appended or refused
InFlight == Cardinality({s \in Sessions : session[s].op # NoOp})

\* the cell of a session's user
Cell(s) == user_worker_data[session[s].user]

\***************************************************************************
\* manage_updates_ws, handshake loop (lines 56-125)
\***************************************************************************

\* a client message arrives before the init message was accepted
HandshakeFrame(s) ==
    /\ session[s].pc = "handshake"
    /\ \E frame \in HandshakeFrames :
        session' =
            CASE frame.kind = "Text" /\ IsInitMessage(frame.text) ->
                     [session EXCEPT ![s].pc = "auth", ![s].api_key = frame.text.api_key]
              [] frame.kind = "Text" /\ ~IsInitMessage(frame.text) ->
                     Closed(s, "Error", "serde")
              [] frame.kind = "Binary" -> Closed(s, "Unsupported", "Only text supported")
              [] frame.kind = "Continuation" ->
                     Closed(s, "Unsupported", "No support for continuation frame.")
              [] frame.kind \in {"Close", "ProtocolError"} -> Closed(s, "NoReason", "")
              [] frame.kind \in {"Ping", "Pong", "Nop"} -> session
    /\ UNCHANGED <<checkpoints, operations, user_worker_data, registry_mutex, cell_mutex,
                   applyVars, heartbeat, locks>>

\* the heartbeat interval ticks during the handshake: close when the client
\* has been silent for more than CLIENT_TIMEOUT, ping otherwise
HandshakeHeartbeat(s) ==
    /\ session[s].pc = "handshake"
    /\ \E expired \in BOOLEAN :
        session' = IF expired THEN Closed(s, "NoReason", "") ELSE session
    /\ UNCHANGED <<checkpoints, operations, user_worker_data, registry_mutex, cell_mutex,
                   applyVars, heartbeat, locks>>

\***************************************************************************
\* manage_updates_ws, get-or-create of the cell (lines 135-222)
\***************************************************************************

\* Auth that lets a key the auth service does not know through as user 1
Auth_Lenient(s) ==
    /\ session[s].pc = "auth"
    /\ \E transport_ok \in BOOLEAN :
        LET user == AuthUser(session[s].api_key) IN
        session' =
            IF ~transport_ok THEN Closed(s, "Error", "InternalServerError")
            ELSE IF user = None THEN [session EXCEPT ![s].pc = "registry", ![s].user = 1]
            ELSE [session EXCEPT ![s].pc = "registry", ![s].user = user]
    /\ UNCHANGED <<checkpoints, operations, user_worker_data, registry_mutex, cell_mutex,
                   applyVars, heartbeat, locks>>

\* line 137: the auth lookup returns
Auth(s) ==
    /\ session[s].pc = "auth"
    /\ \E transport_ok \in BOOLEAN :
        LET user == AuthUser(session[s].api_key) IN
        session' =
            IF ~transport_ok THEN Closed(s, "Error", "InternalServerError")
            ELSE IF user = None THEN Closed(s, "Error", "Unauthorized")
            ELSE [session EXCEPT ![s].pc = "registry", ![s].user = user]
    /\ UNCHANGED <<checkpoints, operations, user_worker_data, registry_mutex, cell_mutex,
                   applyVars, heartbeat, locks>>

\* RegistryLock that does not wait for the registry mutex
RegistryLock_NoMutex(s) ==
    /\ session[s].pc = "registry"
    /\ registry_mutex' = s
    /\ session' =
        [session EXCEPT ![s].pc =
            IF session[s].user \in DOMAIN user_worker_data THEN "o_lock" ELSE "v_pool"]
    /\ UNCHANGED <<checkpoints, operations, user_worker_data, cell_mutex, applyVars, heartbeat, locks>>

\* lines 140-141: the registry mutex is acquired and the entry matched
RegistryLock(s) ==
    /\ session[s].pc = "registry"
    /\ registry_mutex = None
    /\ registry_mutex' = s
    /\ session' =
        [session EXCEPT ![s].pc =
            IF session[s].user \in DOMAIN user_worker_data THEN "o_lock" ELSE "v_pool"]
    /\ UNCHANGED <<checkpoints, operations, user_worker_data, cell_mutex, applyVars, heartbeat, locks>>

\* line 145, Vacant: a pooled connection is obtained, or the pool reports an error
VacantPool(s) ==
    /\ session[s].pc = "v_pool"
    /\ \E ok \in BOOLEAN :
        IF ok
        THEN /\ ConnectionsInUse < PoolMaxSize
             /\ session' = [session EXCEPT ![s].pc = "v_getcp"]
             /\ UNCHANGED registry_mutex
        ELSE /\ session' = Closed(s, "Error", "InternalServerError")
             /\ registry_mutex' = None
    /\ UNCHANGED <<checkpoints, operations, user_worker_data, cell_mutex, applyVars, heartbeat, locks>>

\* lines 148-151, Vacant: the user's most recent checkpoint is looked up
VacantGetCheckpoint(s) ==
    /\ session[s].pc = "v_getcp"
    /\ \E ok \in BOOLEAN :
        IF ok
        THEN LET preexisting_checkpoint == get_recent_by_user_id(session[s].user) IN
             /\ session' =
                 IF preexisting_checkpoint = NoCheckpoint
                 THEN [session EXCEPT ![s].pc = "v_addcp"]
                 ELSE [session EXCEPT ![s].pc = "v_getops",
                                      ![s].recent_checkpoint = preexisting_checkpoint]
             /\ UNCHANGED registry_mutex
        ELSE /\ session' = Closed(s, "Error", "InternalServerError")
             /\ registry_mutex' = None
    /\ UNCHANGED <<checkpoints, operations, user_worker_data, cell_mutex, applyVars, heartbeat, locks>>

\* lines 154-166, Vacant: no checkpoint yet, an empty one is created
VacantAddCheckpoint(s) ==
    /\ session[s].pc = "v_addcp"
    /\ \E ok \in BOOLEAN :
        IF ok
        THEN /\ checkpoints' = checkpoint_add(session[s].user, EmptySnapshot)
             /\ session' = [session EXCEPT ![s].pc = "v_getops",
                                           ![s].recent_checkpoint =
                                               checkpoint_add_id(session[s].user)]
             /\ UNCHANGED registry_mutex
        ELSE /\ session' = Closed(s, "Error", "InternalServerError")
             /\ registry_mutex' = None
             /\ UNCHANGED checkpoints
    /\ UNCHANGED <<operations, user_worker_data, cell_mutex, applyVars, heartbeat, locks>>

\* VacantLoad without the replay: the cell starts from the checkpoint's
\* snapshot alone
VacantLoad_NoReplay(s) ==
    /\ session[s].pc = "v_getops"
    /\ \E ok \in BOOLEAN :
        IF ok
        THEN LET cp == session[s].recent_checkpoint
                 loaded == checkpoint_jsonval(cp)
                 cell == [snapshot |-> loaded, checkpoint_id |-> cp, updates_tx |-> <<>>,
                          base |-> Len(get_operations_since(cp))]
                 user == session[s].user
             IN
             /\ user_worker_data' =
                 [u \in (DOMAIN user_worker_data) \cup {user} |->
                     IF u = user THEN cell ELSE user_worker_data[u]]
             /\ session' = [session EXCEPT ![s].pc = "joined",
                                           ![s].recent_checkpoint = NoCheckpoint,
                                           ![s].once = <<loaded>>,
                                           ![s].rx = 1,
                                           ![s].joinPos = 1]
        ELSE /\ session' = Closed(s, "Error", "InternalServerError")
             /\ UNCHANGED user_worker_data
    /\ registry_mutex' = None
    /\ UNCHANGED <<checkpoints, operations, cell_mutex, applyVars, heartbeat, locks>>

\* lines 168-197, Vacant: the operations since the checkpoint are read and
\* folded, the channel is created, the cell is inserted; the try block ends and
\* the registry guard and the connection drop
VacantLoad(s) ==
    /\ session[s].pc = "v_getops"
    /\ \E ok \in BOOLEAN :
        IF ok
        THEN LET cp == session[s].recent_checkpoint
                 loaded == LoadSnapshot(cp)
                 cell == [snapshot |-> loaded, checkpoint_id |-> cp, updates_tx |-> <<>>,
                          base |-> Len(get_operations_since(cp))]
                 user == session[s].user
             IN
             /\ user_worker_data' =
                 [u \in (DOMAIN user_worker_data) \cup {user} |->
                     IF u = user THEN cell ELSE user_worker_data[u]]
             /\ session' = [session EXCEPT ![s].pc = "joined",
                                           ![s].recent_checkpoint = NoCheckpoint,
                                           ![s].once = <<loaded>>,
                                           ![s].rx = 1,
                                           ![s].joinPos = 1]
        ELSE /\ session' = Closed(s, "Error", "InternalServerError")
             /\ UNCHANGED user_worker_data
    /\ registry_mutex' = None
    /\ UNCHANGED <<checkpoints, operations, cell_mutex, applyVars, heartbeat, locks>>

\* OccupiedJoin without the cell mutex: the receiver is subscribed and the
\* snapshot cloned while another session may be inside its critical section
OccupiedJoin_NoMutex(s) ==
    /\ session[s].pc = "o_lock"
    /\ LET tail == Len(Cell(s).updates_tx) IN
        session' = [session EXCEPT ![s].pc = "joined",
                                   ![s].once = <<Cell(s).snapshot>>,
                                   ![s].rx = tail + 1,
                                   ![s].joinPos = tail + 1]
    /\ registry_mutex' = None
    /\ UNCHANGED <<checkpoints, operations, user_worker_data, cell_mutex, applyVars, heartbeat, locks>>

\* lines 198-205, Occupied: under the cell mutex a receiver is subscribed and
\* the snapshot cloned; the cell guard and then the registry guard drop
OccupiedJoin(s) ==
    /\ session[s].pc = "o_lock"
    /\ cell_mutex[session[s].user] = None
    /\ LET tail == Len(Cell(s).updates_tx) IN
        session' = [session EXCEPT ![s].pc = "joined",
                                   ![s].once = <<Cell(s).snapshot>>,
                                   ![s].rx = tail + 1,
                                   ![s].joinPos = tail + 1]
    /\ registry_mutex' = None
    /\ UNCHANGED <<checkpoints, operations, user_worker_data, cell_mutex, applyVars, heartbeat, locks>>

\***************************************************************************
\* manage_updates_ws, joined loop (lines 234-314)
\***************************************************************************

\* a client message arrives in the joined loop; a text frame enters
\* handle_ws_client_op, whose first step parses it (lines 322-323)
JoinedFrame(s) ==
    /\ session[s].pc = "joined"
    /\ \E frame \in JoinedFrames :
        /\ (frame.kind = "Text" /\ IsOpMessage(frame.text))
               => OperationCount + InFlight < MaxOps
        /\ session' =
            CASE frame.kind = "Text" /\ IsOpMessage(frame.text) ->
                     [session EXCEPT ![s].pc = "op_pool",
                                     ![s].op = FromJson(frame.text.WebsocketOpMessage)]
              [] frame.kind = "Text" /\ ~IsOpMessage(frame.text) ->
                     Closed(s, "Error", "DecodeError")
              [] frame.kind = "Binary" -> Closed(s, "Unsupported", "Only text supported")
              [] frame.kind = "Continuation" ->
                     Closed(s, "Unsupported", "No support for continuation frame.")
              [] frame.kind \in {"Close", "ProtocolError"} -> Closed(s, "NoReason", "")
              [] frame.kind \in {"Ping", "Pong", "Nop"} -> session
    /\ UNCHANGED <<checkpoints, operations, user_worker_data, registry_mutex, cell_mutex,
                   applyVars, heartbeat, locks>>

\* the heartbeat interval ticks in the joined loop (lines 282-294)
JoinedHeartbeat(s) ==
    /\ session[s].pc = "joined"
    /\ \E expired \in BOOLEAN :
        session' = IF expired THEN Closed(s, "NoReason", "") ELSE session
    /\ UNCHANGED <<checkpoints, operations, user_worker_data, registry_mutex, cell_mutex,
                   applyVars, heartbeat, locks>>

\* ServerUpdate with the two streams selected instead of chained: a value
\* waiting in the receiver is forwarded before the OverwriteState
ServerUpdate_ReceiverFirst(s) ==
    /\ session[s].pc = "joined"
    /\ LET tail == Len(Cell(s).updates_tx)
           rx == session[s].rx
       IN
       IF rx <= tail
       THEN session' = [session EXCEPT
                           ![s].out = Append(@, ToJson(Cell(s).updates_tx[rx])),
                           ![s].rx = rx + 1,
                           ![s].seen = Append(@, rx)]
       ELSE /\ session[s].once # <<>>
            /\ session' = [session EXCEPT
                               ![s].out = Append(@, ToJson(OverwriteState(session[s].once[1]))),
                               ![s].once = <<>>]
    /\ UNCHANGED <<checkpoints, operations, user_worker_data, registry_mutex, cell_mutex,
                   applyVars, heartbeat, locks>>

\* ServerUpdate that treats a lag as a stream error and closes
ServerUpdate_CloseOnLag(s) ==
    /\ session[s].pc = "joined"
    /\ LET tail == Len(Cell(s).updates_tx)
           rx == session[s].rx
       IN
       IF session[s].once # <<>>
       THEN session' = [session EXCEPT
                           ![s].out = Append(@, ToJson(OverwriteState(session[s].once[1]))),
                           ![s].once = <<>>]
       ELSE IF tail - rx + 1 > Capacity
       THEN session' = Closed(s, "NoReason", "")
       ELSE /\ rx <= tail
            /\ session' = [session EXCEPT
                               ![s].out = Append(@, ToJson(Cell(s).updates_tx[rx])),
                               ![s].rx = rx + 1,
                               ![s].seen = Append(@, rx)]
    /\ UNCHANGED <<checkpoints, operations, user_worker_data, registry_mutex, cell_mutex,
                   applyVars, heartbeat, locks>>

\* ServerUpdate that does not echo: a value the session published itself is
\* taken from the receiver and dropped
ServerUpdate_SkipOwn(s) ==
    /\ session[s].pc = "joined"
    /\ LET tail == Len(Cell(s).updates_tx)
           rx == session[s].rx
       IN
       IF session[s].once # <<>>
       THEN session' = [session EXCEPT
                           ![s].out = Append(@, ToJson(OverwriteState(session[s].once[1]))),
                           ![s].once = <<>>]
       ELSE IF tail - rx + 1 > Capacity
       THEN session' = [session EXCEPT ![s].rx = tail - Capacity + 1,
                                       ![s].skipped = @ \cup (rx..(tail - Capacity))]
       ELSE /\ rx <= tail
            /\ session' =
                IF rx \in session[s].mine
                THEN [session EXCEPT ![s].rx = rx + 1]
                ELSE [session EXCEPT
                         ![s].out = Append(@, ToJson(Cell(s).updates_tx[rx])),
                         ![s].rx = rx + 1,
                         ![s].seen = Append(@, rx)]
    /\ UNCHANGED <<checkpoints, operations, user_worker_data, registry_mutex, cell_mutex,
                   applyVars, heartbeat, locks>>

\* the server update stream yields (lines 225-227, 296-306): first the
\* OverwriteState of the joined snapshot, then the receiver's items; an Ok item
\* is serialised and sent, a send error closes, a Lagged item is ignored
ServerUpdate(s) ==
    /\ session[s].pc = "joined"
    /\ LET tail == Len(Cell(s).updates_tx)
           rx == session[s].rx
       IN
       IF session[s].once # <<>>
       THEN \E sent \in BOOLEAN :
            session' =
                IF sent
                THEN [session EXCEPT
                         ![s].out = Append(@, ToJson(OverwriteState(session[s].once[1]))),
                         ![s].once = <<>>]
                ELSE Closed(s, "NoReason", "")
       ELSE IF tail - rx + 1 > Capacity
       THEN \* Err(Lagged(n)): the receiver moves to the oldest retained value
            session' = [session EXCEPT ![s].rx = tail - Capacity + 1,
                                       ![s].skipped = @ \cup (rx..(tail - Capacity))]
       ELSE /\ rx <= tail
            /\ \E sent \in BOOLEAN :
                session' =
                    IF sent
                    THEN [session EXCEPT
                             ![s].out = Append(@, ToJson(Cell(s).updates_tx[rx])),
                             ![s].rx = rx + 1,
                             ![s].seen = Append(@, rx)]
                    ELSE Closed(s, "NoReason", "")
    /\ UNCHANGED <<checkpoints, operations, user_worker_data, registry_mutex, cell_mutex,
                   applyVars, heartbeat, locks>>

\***************************************************************************
\* handle_ws_client_op (lines 316-343)
\***************************************************************************

\* lines 326-327: a pooled connection is obtained, or the pool reports an error
OpPool(s) ==
    /\ session[s].pc = "op_pool"
    /\ \E ok \in BOOLEAN :
        IF ok
        THEN /\ ConnectionsInUse < PoolMaxSize
             /\ session' = [session EXCEPT ![s].pc = "op_lock"]
        ELSE session' = Closed(s, "Error", "InternalServerError")
    /\ UNCHANGED <<checkpoints, operations, user_worker_data, registry_mutex, cell_mutex,
                   applyVars, heartbeat, locks>>

\* OpLock without mutual exclusion: the critical section is entered while
\* another session is inside it
OpLock_NoExclusion(s) ==
    /\ session[s].pc = "op_lock"
    /\ cell_mutex' = [cell_mutex EXCEPT ![session[s].user] = s]
    /\ session' = [session EXCEPT ![s].pc = "op_add"]
    /\ UNCHANGED <<checkpoints, operations, user_worker_data, registry_mutex, applyVars, heartbeat, locks>>

\* line 330: the cell mutex is acquired
OpLock(s) ==
    /\ session[s].pc = "op_lock"
    /\ cell_mutex[session[s].user] = None
    /\ cell_mutex' = [cell_mutex EXCEPT ![session[s].user] = s]
    /\ session' = [session EXCEPT ![s].pc = "op_add"]
    /\ UNCHANGED <<checkpoints, operations, user_worker_data, registry_mutex, applyVars, heartbeat, locks>>

\* OpAdd with the result of the append ignored: a failed append is followed
\* by apply and publish all the same
OpAdd_IgnoreError(s) ==
    /\ session[s].pc = "op_add"
    /\ \E ok \in BOOLEAN :
        /\ operations' =
            IF ok THEN operation_add(Cell(s).checkpoint_id, session[s].op) ELSE operations
        /\ session' = [session EXCEPT ![s].pc = "op_apply"]
    /\ UNCHANGED <<checkpoints, user_worker_data, registry_mutex, cell_mutex, applyVars, heartbeat, locks>>

\* OpAdd with the operation applied to the snapshot before the append is tried
OpAdd_ApplyFirst(s) ==
    /\ session[s].pc = "op_add"
    /\ user_worker_data' =
        [user_worker_data EXCEPT ![session[s].user].snapshot =
            apply_operation(@, session[s].op)]
    /\ \E ok \in BOOLEAN :
        IF ok
        THEN /\ operations' = operation_add(Cell(s).checkpoint_id, session[s].op)
             /\ session' = [session EXCEPT ![s].pc = "op_send"]
             /\ UNCHANGED cell_mutex
        ELSE /\ session' = Closed(s, "Error", "InternalServerError")
             /\ cell_mutex' = [cell_mutex EXCEPT ![session[s].user] = None]
             /\ UNCHANGED operations
    /\ UNCHANGED <<checkpoints, registry_mutex, applyVars, heartbeat, locks>>

\* OpAdd that returns on a failed append without releasing the cell mutex
OpAdd_KeepLock(s) ==
    /\ session[s].pc = "op_add"
    /\ \E ok \in BOOLEAN :
        IF ok
        THEN /\ operations' = operation_add(Cell(s).checkpoint_id, session[s].op)
             /\ session' = [session EXCEPT ![s].pc = "op_apply"]
        ELSE /\ session' = Closed(s, "Error", "InternalServerError")
             /\ UNCHANGED operations
    /\ UNCHANGED <<checkpoints, user_worker_data, registry_mutex, cell_mutex, applyVars,
                   heartbeat, locks>>

\* lines 332-334: the record is appended under the cell's checkpoint id; on an
\* error the function returns, the guard drops and the session closes
OpAdd(s) ==
    /\ session[s].pc = "op_add"
    /\ \E ok \in BOOLEAN :
        IF ok
        THEN /\ operations' = operation_add(Cell(s).checkpoint_id, session[s].op)
             /\ session' = [session EXCEPT ![s].pc = "op_apply"]
             /\ UNCHANGED cell_mutex
        ELSE /\ session' = Closed(s, "Error", "InternalServerError")
             /\ cell_mutex' = [cell_mutex EXCEPT ![session[s].user] = None]
             /\ UNCHANGED operations
    /\ UNCHANGED <<checkpoints, user_worker_data, registry_mutex, applyVars, heartbeat, locks>>

\* OpApply after which the cell mutex is dropped, before the operation is
\* published
OpApply_EarlyUnlock(s) ==
    /\ session[s].pc = "op_apply"
    /\ user_worker_data' =
        [user_worker_data EXCEPT
            ![session[s].user].snapshot = apply_operation(@, session[s].op)]
    /\ cell_mutex' = [cell_mutex EXCEPT ![session[s].user] = None]
    /\ session' = [session EXCEPT ![s].pc = "op_send"]
    /\ UNCHANGED <<checkpoints, operations, registry_mutex, applyVars, heartbeat, locks>>

\* OpApply that leaves the cell's snapshot as it was
OpApply_Skip(s) ==
    /\ session[s].pc = "op_apply"
    /\ session' = [session EXCEPT ![s].pc = "op_send"]
    /\ UNCHANGED <<checkpoints, operations, user_worker_data, registry_mutex, cell_mutex,
                   applyVars, heartbeat, locks>>

\* line 336: the operation is applied to the cell's snapshot
OpApply(s) ==
    /\ session[s].pc = "op_apply"
    /\ user_worker_data' =
        [user_worker_data EXCEPT ![session[s].user].snapshot =
            apply_operation(@, session[s].op)]
    /\ session' = [session EXCEPT ![s].pc = "op_send"]
    /\ UNCHANGED <<checkpoints, operations, registry_mutex, cell_mutex, applyVars, heartbeat, locks>>

\* OpSend that publishes on the channel of every cell in the registry
OpSend_AllCells(s) ==
    /\ session[s].pc = "op_send"
    /\ user_worker_data' =
        [u \in DOMAIN user_worker_data |->
            [user_worker_data[u] EXCEPT !.updates_tx = Append(@, session[s].op)]]
    /\ cell_mutex' = [cell_mutex EXCEPT ![session[s].user] = None]
    /\ session' = [session EXCEPT ![s].pc = "joined",
                                  ![s].op = NoOp,
                                  ![s].mine = @ \cup {Len(Cell(s).updates_tx) + 1}]
    /\ UNCHANGED <<checkpoints, operations, registry_mutex, applyVars, heartbeat, locks>>

\* lines 338-342: the operation is sent on the broadcast channel, the guard
\* drops and the handler returns Ok to the joined loop
OpSend(s) ==
    /\ session[s].pc = "op_send"
    /\ user_worker_data' =
        [user_worker_data EXCEPT ![session[s].user].updates_tx = Append(@, session[s].op)]
    /\ cell_mutex' = [cell_mutex EXCEPT ![session[s].user] = None]
    /\ session' = [session EXCEPT ![s].pc = "joined",
                                  ![s].op = NoOp,
                                  ![s].mine = @ \cup {Len(Cell(s).updates_tx) + 1}]
    /\ UNCHANGED <<checkpoints, operations, registry_mutex, applyVars, heartbeat, locks>>

\***************************************************************************
\* Process restart: main() builds AppData anew (main.rs lines 101-110); the
\* store keeps its records, every connection and every cell is gone
\***************************************************************************

Restart ==
    /\ user_worker_data # <<>>
    /\ user_worker_data' = <<>>
    /\ registry_mutex' = None
    /\ cell_mutex' = [u \in Users |-> None]
    /\ session' = [s \in Sessions |-> FreshSession]
    /\ UNCHANGED <<checkpoints, operations, applyVars, heartbeat, locks>>

\***************************************************************************
\* The hub specification
\***************************************************************************

SessionStep(s) ==
    \/ HandshakeFrame(s)
    \/ HandshakeHeartbeat(s)
    \/ Auth(s)
    \/ RegistryLock(s)
    \/ VacantPool(s)
    \/ VacantGetCheckpoint(s)
    \/ VacantAddCheckpoint(s)
    \/ VacantLoad(s)
    \/ OccupiedJoin(s)
    \/ JoinedFrame(s)
    \/ JoinedHeartbeat(s)
    \/ ServerUpdate(s)
    \/ OpPool(s)
    \/ OpLock(s)
    \/ OpAdd(s)
    \/ OpApply(s)
    \/ OpSend(s)

Next ==
    \/ \E s \in Sessions : SessionStep(s)
    \/ Restart

Spec == Init /\ [][Next]_vars

\***************************************************************************
\* The reducer specification: apply_operation called once, on every snapshot
\* within the bounds (duplicate ids included) with every operation variant
\***************************************************************************

\* the sequences over S of length at most n
SeqsUpTo(S, n) == UNION {[1..k -> S] : k \in 0..n}

\* the snapshots apply_operation is called on: tasks carry the value "x"
Snapshots ==
    {StateSnapshot(l, f) :
        l \in SeqsUpTo({LiveTask(id, "x") : id \in TaskIds}, MaxLive),
        f \in SeqsUpTo({FinishedTask(id, "x", "Succeeded") : id \in {"c", "d"}}, MaxFinished)}

\* positions an insert may name: every index of the longest list, and beyond
Positions == 0..(MaxLive + 2)

\* snapshots an OverwriteState may carry
OverwriteInputs ==
    {EmptySnapshot,
     StateSnapshot(<<LiveTask("a", "y"), LiveTask("b", "y")>>,
                   <<FinishedTask("c", "y", "Failed")>>)}

InitApply ==
    /\ InitHub
    /\ snapshot \in Snapshots
    /\ applied = NoOp
    /\ result = snapshot
    /\ panicked = FALSE
    /\ heartbeat = InitHeartbeat
    /\ locks = InitLocks

\* one call apply_operation(&mut snapshot, op)
Call(op) ==
    /\ applied = NoOp
    /\ applied' = op
    /\ result' = apply_operation(snapshot, op)
    /\ panicked' = apply_outcome(snapshot, op).panic
    /\ UNCHANGED <<snapshot, hubVars, heartbeat, locks>>

\* the operations apply_operation is called with, one set per variant
OverwriteStateInputs == {OverwriteState(s) : s \in OverwriteInputs}

LiveTaskInsNewInputs ==
    {LiveTaskInsNew(id, "y", position) : id \in TaskIds, position \in Positions}

LiveTaskInsRestoreInputs == {LiveTaskInsRestore(fid) : fid \in TaskIds}

LiveTaskEditInputs == {LiveTaskEdit(id, "y") : id \in TaskIds}

LiveTaskDelInputs == {LiveTaskDel(id) : id \in TaskIds}

LiveTaskDelInsInputs == {LiveTaskDelIns(del, ins) : del \in TaskIds, ins \in TaskIds}

FinishedTaskPushInputs ==
    {FinishedTaskPush(fid, "y", status) : fid \in TaskIds, status \in Statuses}

FinishedTaskPushCompleteInputs ==
    {FinishedTaskPushComplete(id, fid, status) :
        id \in TaskIds, fid \in TaskIds, status \in Statuses}

CallOverwriteState == \E op \in OverwriteStateInputs : Call(op)

CallLiveTaskInsNew == \E op \in LiveTaskInsNewInputs : Call(op)

CallLiveTaskInsRestore == \E op \in LiveTaskInsRestoreInputs : Call(op)

CallLiveTaskEdit == \E op \in LiveTaskEditInputs : Call(op)

CallLiveTaskDel == \E op \in LiveTaskDelInputs : Call(op)

CallLiveTaskDelIns == \E op \in LiveTaskDelInsInputs : Call(op)

CallFinishedTaskPush == \E op \in FinishedTaskPushInputs : Call(op)

CallFinishedTaskPushComplete == \E op \in FinishedTaskPushCompleteInputs : Call(op)

NextApply ==
    \/ CallOverwriteState
    \/ CallLiveTaskInsNew
    \/ CallLiveTaskInsRestore
    \/ CallLiveTaskEdit
    \/ CallLiveTaskDel
    \/ CallLiveTaskDelIns
    \/ CallFinishedTaskPush
    \/ CallFinishedTaskPushComplete

SpecApply == InitApply /\ [][NextApply]_vars

\***************************************************************************
\* The heartbeat specification: the joined loop of one session (lines
\* 234-308) against a clock of whole seconds.  An event that is ready is taken
\* before the clock moves while the session awaits joint_stream.next(); while
\* it awaits handle_ws_client_op the stream is not polled and the clock moves
\* freely.
\***************************************************************************

\* the client sends a frame
ClientSends ==
    /\ heartbeat.pc \in {"handshake", "loop", "busy"}
    /\ Len(heartbeat.inbox) < MaxInbox
    /\ \E kind \in {"Ping", "Pong", "Text"} :
        heartbeat' = [heartbeat EXCEPT
                         !.inbox = Append(@, kind),
                         !.client_last = IF kind = "Text" THEN @ ELSE heartbeat.now]
    /\ UNCHANGED <<hubVars, applyVars, locks>>

\* TakeFrame that takes any client frame as a sign of life
TakeFrame_AnyRefresh ==
    /\ heartbeat.pc = "loop"
    /\ heartbeat.inbox # <<>>
    /\ heartbeat' =
        IF Head(heartbeat.inbox) = "Text"
        THEN [heartbeat EXCEPT !.inbox = Tail(@), !.pc = "busy",
                               !.last_heartbeat = heartbeat.now]
        ELSE [heartbeat EXCEPT !.inbox = Tail(@), !.last_heartbeat = heartbeat.now]
    /\ UNCHANGED <<hubVars, applyVars, locks>>

\* lines 236-273: the message stream yields a frame: Ping and Pong set
\* last_heartbeat, Text is handed to handle_ws_client_op
TakeFrame ==
    /\ heartbeat.pc = "loop"
    /\ heartbeat.inbox # <<>>
    /\ heartbeat' =
        IF Head(heartbeat.inbox) = "Text"
        THEN [heartbeat EXCEPT !.inbox = Tail(@), !.pc = "busy"]
        ELSE [heartbeat EXCEPT !.inbox = Tail(@), !.last_heartbeat = heartbeat.now]
    /\ UNCHANGED <<hubVars, applyVars, locks>>

\* lines 243-251: handle_ws_client_op returns, Ok or Err
HandlerReturns ==
    /\ heartbeat.pc = "busy"
    /\ \E ok \in BOOLEAN :
        heartbeat' = IF ok
                     THEN [heartbeat EXCEPT !.pc = "loop"]
                     ELSE [heartbeat EXCEPT !.pc = "closed", !.closed_by = "error"]
    /\ UNCHANGED <<hubVars, applyVars, locks>>

\* lines 281-294: the interval yields a tick that is due: close without a
\* reason when last_heartbeat is more than CLIENT_TIMEOUT ago, ping otherwise;
\* the interval's next tick is due one period after this one was
HeartbeatTick ==
    /\ heartbeat.pc = "loop"
    /\ heartbeat.next_tick <= heartbeat.now
    /\ heartbeat' =
        IF heartbeat.now - heartbeat.last_heartbeat > CLIENT_TIMEOUT
        THEN [heartbeat EXCEPT !.pc = "closed", !.closed_by = "heartbeat",
                               !.next_tick = @ + HEARTBEAT_INTERVAL]
        ELSE [heartbeat EXCEPT !.pings = @ + 1,
                               !.next_tick = @ + HEARTBEAT_INTERVAL]
    /\ UNCHANGED <<hubVars, applyVars, locks>>

\* lines 296-306: the server update stream yields a value another session
\* published; it is serialised and sent, a send error closes
ForwardUpdate ==
    /\ heartbeat.pc = "loop"
    /\ \E sent \in BOOLEAN :
        heartbeat' = IF sent
                     THEN [heartbeat EXCEPT !.forwarded = TRUE]
                     ELSE [heartbeat EXCEPT !.pc = "closed", !.closed_by = "send"]
    /\ UNCHANGED <<hubVars, applyVars, locks>>

\* a second passes: not while the session awaits joint_stream.next() with an
\* event ready
Second ==
    /\ heartbeat.pc \in {"handshake", "loop", "busy"}
    /\ heartbeat.now < MaxTime
    /\ ~(/\ heartbeat.pc \in {"handshake", "loop"}
          /\ (heartbeat.inbox # <<>> \/ heartbeat.next_tick <= heartbeat.now))
    /\ heartbeat' = [heartbeat EXCEPT
                        !.now = @ + 1,
                        !.late = @ \/ (heartbeat.now + 1 - heartbeat.client_last
                                          > CLIENT_TIMEOUT),
                        !.stalled = @ \/ (heartbeat.pc = "busy")]
    /\ UNCHANGED <<hubVars, applyVars, locks>>

NextHeartbeat ==
    \/ ClientSends
    \/ TakeFrame
    \/ HandlerReturns
    \/ HeartbeatTick
    \/ ForwardUpdate
    \/ Second

SpecHeartbeat == Init /\ [][NextHeartbeat]_vars

\***************************************************************************
\* The lock specification: manage_updates_ws and handle_ws_client_op reduced
\* to what they lock, in the order they lock it.  A connection that closed
\* is idle and may connect again.  A store call returns, Ok or Err; a mutex
\* or a pooled connection that is free again and again is obtained by each
\* waiter (tokio's Mutex and deadpool's semaphore queue their waiters).
\***************************************************************************

\* connections holding a pooled connection: from pool.get() to the end of the
\* scope of con (lines 144-197, 326-342)
LockHoldsConnection(s) == locks.pc[s] \in {"v_store", "op_lock", "op_add"}

LockConnectionsInUse == Cardinality({s \in LockSessions : LockHoldsConnection(s)})

\* lines 56-138: a client connects, sends its init message and is
\* authenticated as some user
Connect(s) ==
    /\ locks.pc[s] = "idle"
    /\ \E u \in Users : locks' = [locks EXCEPT !.pc[s] = "registry", !.user[s] = u]
    /\ UNCHANGED <<hubVars, applyVars, heartbeat>>

\* lines 140-141: the registry mutex is acquired and the entry matched
RegistryAcquire(s) ==
    /\ locks.pc[s] = "registry"
    /\ locks.registry = None
    /\ locks' = [locks EXCEPT
                    !.registry = s,
                    !.pc[s] = IF locks.user[s] \in locks.cells THEN "o_lock" ELSE "v_pool"]
    /\ UNCHANGED <<hubVars, applyVars, heartbeat>>

\* line 145, Vacant: pool.get() hands out a connection
VacantPoolGet(s) ==
    /\ locks.pc[s] = "v_pool"
    /\ LockConnectionsInUse < MaxPool
    /\ locks' = [locks EXCEPT !.pc[s] = "v_store"]
    /\ UNCHANGED <<hubVars, applyVars, heartbeat>>

\* line 145, Vacant: pool.get() fails; the try block ends, write_guard drops,
\* the session closes (lines 209-221)
VacantPoolError(s) ==
    /\ locks.pc[s] = "v_pool"
    /\ locks' = [locks EXCEPT !.pc[s] = "idle", !.user[s] = None, !.registry = None]
    /\ UNCHANGED <<hubVars, applyVars, heartbeat>>

\* lines 148-197, Vacant: the store calls return; Ok: the cell is inserted;
\* either way the try block ends, con and write_guard drop
VacantBuild(s) ==
    /\ locks.pc[s] = "v_store"
    /\ \E ok \in BOOLEAN :
        locks' = IF ok
                 THEN [locks EXCEPT !.pc[s] = "joined", !.registry = None,
                                    !.cells = @ \cup {locks.user[s]}]
                 ELSE [locks EXCEPT !.pc[s] = "idle", !.user[s] = None, !.registry = None]
    /\ UNCHANGED <<hubVars, applyVars, heartbeat>>

\* lines 198-205, Occupied: the cell mutex is acquired, the receiver
\* subscribed, the cell guard dropped; the try block ends, write_guard drops
OccupiedSubscribe(s) ==
    /\ locks.pc[s] = "o_lock"
    /\ locks.cell[locks.user[s]] = None
    /\ locks' = [locks EXCEPT !.pc[s] = "joined", !.registry = None]
    /\ UNCHANGED <<hubVars, applyVars, heartbeat>>

\* lines 241-244: the client submits an operation, handle_ws_client_op starts
Submit(s) ==
    /\ locks.pc[s] = "joined"
    /\ locks' = [locks EXCEPT !.pc[s] = "op_pool"]
    /\ UNCHANGED <<hubVars, applyVars, heartbeat>>

\* lines 252-311: the joined loop breaks and the session closes
Disconnect(s) ==
    /\ locks.pc[s] = "joined"
    /\ locks' = [locks EXCEPT !.pc[s] = "idle", !.user[s] = None]
    /\ UNCHANGED <<hubVars, applyVars, heartbeat>>

\* lines 326-327: pool.get() hands out a connection
OpPoolGet(s) ==
    /\ locks.pc[s] = "op_pool"
    /\ LockConnectionsInUse < MaxPool
    /\ locks' = [locks EXCEPT !.pc[s] = "op_lock"]
    /\ UNCHANGED <<hubVars, applyVars, heartbeat>>

\* lines 326-327: pool.get() fails, the handler returns Err, the session closes
OpPoolError(s) ==
    /\ locks.pc[s] = "op_pool"
    /\ locks' = [locks EXCEPT !.pc[s] = "idle", !.user[s] = None]
    /\ UNCHANGED <<hubVars, applyVars, heartbeat>>

\* line 330: the cell mutex is acquired
OpCellAcquire(s) ==
    /\ locks.pc[s] = "op_lock"
    /\ locks.cell[locks.user[s]] = None
    /\ locks' = [locks EXCEPT !.pc[s] = "op_add", !.cell[locks.user[s]] = s]
    /\ UNCHANGED <<hubVars, applyVars, heartbeat>>

\* OpCommit that keeps the cell mutex when operation_service::add fails
OpCommit_KeepLockOnError(s) ==
    /\ locks.pc[s] = "op_add"
    /\ \E ok \in BOOLEAN :
        locks' = IF ok
                 THEN [locks EXCEPT !.pc[s] = "joined", !.cell[locks.user[s]] = None]
                 ELSE [locks EXCEPT !.pc[s] = "idle", !.user[s] = None]
    /\ UNCHANGED <<hubVars, applyVars, heartbeat>>

\* lines 332-342: operation_service::add returns; Ok: apply and send follow
\* without an await and the handler returns; Err: the handler returns through
\* `?` and the session closes; either way the cell guard and con drop
OpCommit(s) ==
    /\ locks.pc[s] = "op_add"
    /\ \E ok \in BOOLEAN :
        locks' = IF ok
                 THEN [locks EXCEPT !.pc[s] = "joined", !.cell[locks.user[s]] = None]
                 ELSE [locks EXCEPT !.pc[s] = "idle", !.user[s] = None,
                                    !.cell[locks.user[s]] = None]
    /\ UNCHANGED <<hubVars, applyVars, heartbeat>>

\* the steps of a connection that wait for nothing but the store or a lock
LockProgress(s) ==
    \/ RegistryAcquire(s)
    \/ VacantPoolGet(s)
    \/ VacantBuild(s)
    \/ OccupiedSubscribe(s)
    \/ OpPoolGet(s)
    \/ OpCellAcquire(s)
    \/ OpCommit(s)

NextLocks ==
    \E s \in LockSessions :
        \/ Connect(s)
        \/ VacantPoolError(s)
        \/ Submit(s)
        \/ Disconnect(s)
        \/ OpPoolError(s)
        \/ LockProgress(s)

\* store calls return; a waiter for a mutex or a connection that is free
\* again and again obtains it: no connection is left for ever before a step
\* that needs no client and is enabled again and again
FairLocks == \A s \in LockSessions : SF_vars(LockProgress(s))

SpecLocks == Init /\ [][NextLocks]_vars /\ FairLocks

\***************************************************************************
\* The handshake specification: one connection from connect on, its handshake
\* loop (lines 56-114) against the clock of whole seconds, and what
\* manage_updates_ws and handle_ws_client_op do for it afterwards.  heartbeat.pc
\* is "handshake" while the loop runs and "over" once it broke with the init
\* message; the clock is followed no further then.
\***************************************************************************

\* the connection the handshake specification follows
HandshakeSession == 1

\* the timing record once the handshake loop broke with Ok(req)
HandshakeOver == [InitHeartbeat EXCEPT !.pc = "over"]

\* lines 39-54: connected, last_heartbeat = now, the first tick is due
InitHandshake ==
    /\ InitHub
    /\ snapshot = EmptySnapshot
    /\ applied = NoOp
    /\ result = EmptySnapshot
    /\ panicked = FALSE
    /\ heartbeat = [InitHeartbeat EXCEPT !.pc = "handshake"]
    /\ locks = InitLocks

\* lines 59-95: the message stream yields a frame in the handshake loop: Ping
\* and Pong set last_heartbeat, Text breaks the loop with the parse result
HandshakeTake ==
    /\ heartbeat.pc = "handshake"
    /\ heartbeat.inbox # <<>>
    /\ IF Head(heartbeat.inbox) = "Text"
       THEN \E text \in {InitMessage(k) : k \in ApiKeys} \cup {Garbage} :
            IF IsInitMessage(text)
            THEN /\ heartbeat' = HandshakeOver
                 /\ session' = [session EXCEPT ![HandshakeSession].pc = "auth",
                                               ![HandshakeSession].api_key = text.api_key]
            ELSE /\ heartbeat' = [heartbeat EXCEPT !.inbox = Tail(@), !.pc = "closed",
                                                   !.closed_by = "error"]
                 /\ session' = Closed(HandshakeSession, "Error", "serde")
       ELSE /\ heartbeat' = [heartbeat EXCEPT !.inbox = Tail(@),
                                              !.last_heartbeat = heartbeat.now]
            /\ UNCHANGED session
    /\ UNCHANGED <<checkpoints, operations, user_worker_data, registry_mutex, cell_mutex,
                   applyVars, locks>>

\* HandshakeTick that pings and never checks last_heartbeat
HandshakeTick_PingOnly ==
    /\ heartbeat.pc = "handshake"
    /\ heartbeat.next_tick <= heartbeat.now
    /\ heartbeat' = [heartbeat EXCEPT !.pings = @ + 1,
                                      !.next_tick = @ + HEARTBEAT_INTERVAL]
    /\ UNCHANGED session
    /\ UNCHANGED <<checkpoints, operations, user_worker_data, registry_mutex, cell_mutex,
                   applyVars, locks>>

\* lines 102-110, 117-123: the interval yields a tick that is due in the
\* handshake loop: break Err(None) and close without a reason when
\* last_heartbeat is more than CLIENT_TIMEOUT ago, ping otherwise
HandshakeTick ==
    /\ heartbeat.pc = "handshake"
    /\ heartbeat.next_tick <= heartbeat.now
    /\ IF heartbeat.now - heartbeat.last_heartbeat > CLIENT_TIMEOUT
       THEN /\ heartbeat' = [heartbeat EXCEPT !.pc = "closed", !.closed_by = "heartbeat",
                                              !.next_tick = @ + HEARTBEAT_INTERVAL]
            /\ session' = Closed(HandshakeSession, "NoReason", "")
       ELSE /\ heartbeat' = [heartbeat EXCEPT !.pings = @ + 1,
                                              !.next_tick = @ + HEARTBEAT_INTERVAL]
            /\ UNCHANGED session
    /\ UNCHANGED <<checkpoints, operations, user_worker_data, registry_mutex, cell_mutex,
                   applyVars, locks>>

\* lines 127-343: the connection after its handshake
AfterHandshake ==
    \/ Auth(HandshakeSession)
    \/ RegistryLock(HandshakeSession)
    \/ VacantPool(HandshakeSession)
    \/ VacantGetCheckpoint(HandshakeSession)
    \/ VacantAddCheckpoint(HandshakeSession)
    \/ VacantLoad(HandshakeSession)
    \/ JoinedFrame(HandshakeSession)
    \/ ServerUpdate(HandshakeSession)
    \/ OpPool(HandshakeSession)
    \/ OpLock(HandshakeSession)
    \/ OpAdd(HandshakeSession)
    \/ OpApply(HandshakeSession)
    \/ OpSend(HandshakeSession)

NextHandshake ==
    \/ ClientSends
    \/ HandshakeTake
    \/ HandshakeTick
    \/ Second
    \/ AfterHandshake

SpecHandshake == InitHandshake /\ [][NextHandshake]_vars

\***************************************************************************
\* Definitions the properties are stated with
\***************************************************************************

\* the session is in the joined loop (inside handle_ws_client_op included)
Joined(s) ==
    session[s].pc \in {"joined", "op_pool", "op_lock", "op_add", "op_apply", "op_send"}

\* the values sent on the channel of the session's cell
Chan(s) == Cell(s).updates_tx

\* the operation records logged under the checkpoint of a cell
Log(cell) == get_operations_since(cell.checkpoint_id)

\* the sequence is strictly increasing
Increasing(seq) == \A i \in 1..(Len(seq) - 1) : seq[i] < seq[i + 1]

\* no id twice in live, none twice in finished, none in both
UniqueIds(snap) ==
    /\ \A i \in 1..Len(snap.live) : \A j \in 1..Len(snap.live) :
           snap.live[i].id = snap.live[j].id => i = j
    /\ \A i \in 1..Len(snap.finished) : \A j \in 1..Len(snap.finished) :
           snap.finished[i].id = snap.finished[j].id => i = j
    /\ \A i \in 1..Len(snap.live) : \A j \in 1..Len(snap.finished) :
           snap.live[i].id # snap.finished[j].id

\* the values of a sequence
Range(seq) == {seq[i] : i \in 1..Len(seq)}

\* the snapshot the session was given when it joined: the one its
\* OverwriteState frame carries, sent or still to be sent
InitialSnapshot(s) ==
    IF session[s].once # <<>>
    THEN session[s].once[1]
    ELSE FromJson(session[s].out[1]).snapshot

\* what a client holds that folds apply over the frames it was sent
ClientView(s) == Fold(EmptySnapshot, Decode(session[s].out))

\* the session is idle in the joined loop, has sent its OverwriteState and has
\* taken every value off its receiver
Drained(s) ==
    /\ session[s].pc = "joined"
    /\ session[s].once = <<>>
    /\ session[s].rx > Len(Chan(s))

\* no session of the user is inside handle_ws_client_op
NoOperationInFlight(u) ==
    /\ cell_mutex[u] = None
    /\ \A t \in Sessions : session[t].user = u => session[t].op = NoOp

\***************************************************************************
\* C1  Durability before visibility
\***************************************************************************

\* C1: every value sent on a cell's broadcast channel, and so every operation
\* frame a session forwarded to its client, is an operation record of the log
\* under the cell's checkpoint id (the p-th value sent is the record base + p);
\* a cold reload folds the log, so it includes every operation a client saw.
C1_DurabilityBeforeVisibility ==
    /\ \A u \in DOMAIN user_worker_data :
        LET cell == user_worker_data[u] IN
        \A p \in 1..Len(cell.updates_tx) :
            /\ cell.base + p <= Len(Log(cell))
            /\ Log(cell)[cell.base + p] = ToJson(cell.updates_tx[p])
    /\ \A s \in Sessions :
        Joined(s) =>
            \A i \in 1..Len(session[s].seen) :
                /\ Cell(s).base + session[s].seen[i] <= Len(Log(Cell(s)))
                /\ session[s].out[i + 1] = Log(Cell(s))[Cell(s).base + session[s].seen[i]]

\* C1 witness: a session has forwarded an operation another session submitted
C1_Witness ==
    \E s \in Sessions :
        /\ Joined(s)
        /\ \E i \in 1..Len(session[s].seen) : session[s].seen[i] \notin session[s].mine

\***************************************************************************
\* C2  A failed append leaves no trace
\***************************************************************************

\* C2: a step in which a session inside handle_ws_client_op closes (the pool
\* gave no connection, or the append failed) closes it with code Error and a
\* message, changes no cell (snapshot and channel as they were), appends no
\* record, and leaves the cell mutex free of that session; after a failed
\* append nobody holds it.
C2_AppendFailure ==
    [][\A s \in Sessions :
          (session[s].pc \in {"op_pool", "op_add"} /\ session'[s].pc = "closed")
          => /\ session'[s].close.code = "Error"
             /\ session'[s].close.description = "InternalServerError"
             /\ user_worker_data' = user_worker_data
             /\ operations' = operations
             /\ cell_mutex'[session[s].user] # s
             /\ session[s].pc = "op_add" => cell_mutex'[session[s].user] = None]_vars

\* C2 witness: a session closed by a failed append, on a cell another session
\* is joined to, whose mutex is free again
C2_Witness ==
    \E s \in Sessions, t \in Sessions :
        /\ session[s].pc = "closed"
        /\ session[s].close.from = "op_add"
        /\ session[s].close.code = "Error"
        /\ Joined(t)
        /\ cell_mutex[session[t].user] = None
        /\ Chan(t) = <<>>

\***************************************************************************
\* C3  Broadcast linearization
\***************************************************************************

\* C3: each session forwards channel positions in increasing order, from its
\* subscription on, each frame being the value at that position; and the
\* channel's order is the log's order (the p-th value sent is the record
\* base + p).  So what two sessions of a cell receive are subsequences of the
\* one order of the log.
C3_BroadcastLinearization ==
    \A s \in Sessions :
        Joined(s) =>
            /\ Increasing(session[s].seen)
            /\ \A i \in 1..Len(session[s].seen) :
                LET p == session[s].seen[i] IN
                /\ session[s].joinPos <= p /\ p < session[s].rx
                /\ p <= Len(Chan(s))
                /\ session[s].out[i + 1] = ToJson(Chan(s)[p])
                /\ Cell(s).base + p <= Len(Log(Cell(s)))
                    => Log(Cell(s))[Cell(s).base + p] = session[s].out[i + 1]

\* C3 witness: two sessions of one cell have each forwarded two operations
C3_Witness ==
    \E s \in Sessions, t \in Sessions :
        /\ s # t
        /\ Joined(s) /\ Joined(t)
        /\ session[s].user = session[t].user
        /\ Len(session[s].seen) >= 2
        /\ Len(session[t].seen) >= 2
        /\ Chan(s)[1] # Chan(s)[2]

\***************************************************************************
\* C4  Convergence
\***************************************************************************

\* C4 as claimed: whenever no operation is in flight and a joined session has
\* drained its receiver, folding apply over the frames it was sent gives the
\* cell's snapshot.
C4_Convergence ==
    \A s \in Sessions :
        (Drained(s) /\ NoOperationInFlight(session[s].user))
            => ClientView(s) = Cell(s).snapshot

\* C4 as amended: the same, for a session whose receiver never lagged.
C4_ConvergenceWithoutLag ==
    \A s \in Sessions :
        (Drained(s) /\ NoOperationInFlight(session[s].user) /\ session[s].skipped = {})
            => ClientView(s) = Cell(s).snapshot

\* C4 witness: two drained sessions of one cell hold the cell's snapshot, each
\* after forwarding an operation of the other
C4_Witness ==
    \E s \in Sessions, t \in Sessions :
        /\ s # t
        /\ Drained(s) /\ Drained(t)
        /\ session[s].user = session[t].user
        /\ NoOperationInFlight(session[s].user)
        /\ session[s].skipped = {} /\ session[t].skipped = {}
        /\ session[s].mine # {} /\ session[t].mine # {}
        /\ Len(session[s].seen) = 2 /\ Len(session[t].seen) = 2
        /\ ClientView(s) = Cell(s).snapshot
        /\ ClientView(t) = Cell(s).snapshot

\***************************************************************************
\* C5  Replay equivalence
\***************************************************************************

\* C5: whenever a cell's mutex is free, its snapshot is the fold of apply over
\* its checkpoint's snapshot and the records logged under its checkpoint id,
\* in log order, and that checkpoint is the user's most recent one: building
\* the cell afresh from the store gives the snapshot in memory.
C5_ReplayEquivalence ==
    \A u \in DOMAIN user_worker_data :
        LET cell == user_worker_data[u] IN
        cell_mutex[u] = None
            => /\ cell.snapshot = Fold(checkpoint_jsonval(cell.checkpoint_id), Decode(Log(cell)))
               /\ cell.checkpoint_id = get_recent_by_user_id(u)
               /\ cell.snapshot = LoadSnapshot(get_recent_by_user_id(u))

\* C5 witness: a cell built from a log that held a record already, with a
\* further operation applied live since, and its mutex free
C5_Witness ==
    \E u \in DOMAIN user_worker_data :
        /\ user_worker_data[u].base > 0
        /\ Len(user_worker_data[u].updates_tx) > 0
        /\ cell_mutex[u] = None
        /\ user_worker_data[u].snapshot # EmptySnapshot

\***************************************************************************
\* C6  Atomic join
\***************************************************************************

\* C6: the snapshot a session is given is the fold of exactly the records that
\* precede its subscription (the first base + joinPos - 1 of the log); of the
\* values sent on the channel, those before joinPos are never forwarded to it,
\* and each one from joinPos on has been forwarded, is still waiting in its
\* receiver, or was skipped by a lag.
C6_AtomicJoin ==
    \A s \in Sessions :
        Joined(s) =>
            /\ InitialSnapshot(s) =
                   Fold(checkpoint_jsonval(Cell(s).checkpoint_id),
                        Decode(SubSeq(Log(Cell(s)), 1, Cell(s).base + session[s].joinPos - 1)))
            /\ \A p \in 1..Len(Chan(s)) :
                   IF p < session[s].joinPos
                   THEN p \notin Range(session[s].seen)
                   ELSE \/ p \in Range(session[s].seen)
                        \/ p >= session[s].rx
                        \/ p \in session[s].skipped

\* C6 witness: a session has joined an existing cell after one operation was
\* published, while another session of the user has the next one under way
C6_Witness ==
    \E s \in Sessions, t \in Sessions :
        /\ s # t
        /\ session[s].pc = "joined"
        /\ session[s].joinPos = 2
        /\ session[s].once # <<>>
        /\ session[t].user = session[s].user
        /\ session[t].pc \in {"op_lock", "op_add"}

\***************************************************************************
\* C7  The first frame is OverwriteState
\***************************************************************************

\* C7: the first frame a joined session sends is OverwriteState carrying the
\* snapshot cloned at join time: the frame sequence grows from empty only to
\* that one frame, and the cloned snapshot is not replaced while it waits,
\* whatever is applied to the cell in between.
C7_FirstFrameOverwriteState ==
    [][\A s \in Sessions :
          /\ (Joined(s) /\ session[s].out = <<>> /\ session'[s].out # <<>>)
                => session'[s].out = <<ToJson(OverwriteState(session[s].once[1]))>>
          /\ (Joined(s) /\ session[s].once # <<>> /\ session'[s].once # <<>>)
                => session'[s].once = session[s].once]_vars

\* C7 witness: a session sent OverwriteState as its first frame although an
\* operation of its own was published on its receiver before that
C7_Witness ==
    \E s \in Sessions :
        /\ session[s].pc = "joined"
        /\ Len(session[s].out) = 1
        /\ "OverwriteState" \in DOMAIN session[s].out[1]
        /\ session[s].seen = <<>>
        /\ session[s].skipped = {}
        /\ session[s].rx = session[s].joinPos
        /\ session[s].joinPos \in session[s].mine

\***************************************************************************
\* C8  Originator echo
\***************************************************************************

\* C8 as claimed: a session that has drained its receiver has forwarded to its
\* own client every operation it published.
C8_OriginatorEcho ==
    \A s \in Sessions :
        Drained(s) => session[s].mine \subseteq Range(session[s].seen)

\* C8 as amended: every operation a session published was sent on the channel
\* after the session subscribed, and has been forwarded to its own client, is
\* still waiting in its receiver, or was skipped by a lag of that receiver;
\* and every operation frame the session sent was taken from its receiver.
C8_OriginatorEchoUnlessLag ==
    \A s \in Sessions :
        Joined(s) =>
            /\ \A p \in session[s].mine :
                   /\ session[s].joinPos <= p /\ p <= Len(Chan(s))
                   /\ \/ p \in Range(session[s].seen)
                      \/ p >= session[s].rx
                      \/ p \in session[s].skipped
            /\ Len(session[s].out) =
                   (IF session[s].once = <<>> THEN 1 ELSE 0) + Len(session[s].seen)
            /\ \A i \in 1..Len(session[s].seen) :
                   /\ session[s].seen[i] < session[s].rx
                   /\ session[s].out[i + 1] = ToJson(Chan(s)[session[s].seen[i]])

\* C8 witness: a session has forwarded to its client an operation it
\* published itself
C8_Witness ==
    \E s \in Sessions :
        /\ Drained(s)
        /\ session[s].mine # {}
        /\ session[s].mine \subseteq Range(session[s].seen)

\***************************************************************************
\* C9  Task-id uniqueness
\***************************************************************************

\* C9: in every cell snapshot no id appears in both live and finished, and no
\* id appears twice in live or twice in finished.
C9_TaskIdUniqueness ==
    \A u \in DOMAIN user_worker_data : UniqueIds(user_worker_data[u].snapshot)

\***************************************************************************
\* C10  Reducer totality
\***************************************************************************

\* C10: apply_operation never panics, for any operation variant on any
\* snapshot, snapshots with duplicate ids, LiveTaskDelIns with the del id equal
\* to the ins id and any position included.
C10_ReducerTotality == panicked = FALSE

\* C10 witness: LiveTaskDelIns with the del id equal to the ins id has been
\* applied to a snapshot in which that id is live twice, and returned
C10_Witness ==
    /\ applied.tag = "LiveTaskDelIns"
    /\ applied.live_task_id_del = applied.live_task_id_ins
    /\ Position(snapshot.live, applied.live_task_id_del) >= 0
    /\ \E i \in 1..Len(snapshot.live), j \in 1..Len(snapshot.live) :
           i # j /\ snapshot.live[i].id = applied.live_task_id_del
                 /\ snapshot.live[j].id = applied.live_task_id_del
    /\ result = snapshot
    /\ panicked = FALSE

\***************************************************************************
\* C11  Move correctness
\***************************************************************************

\* the call was LiveTaskDelIns with both ids live in the snapshot
DelInsBothPresent ==
    /\ applied.tag = "LiveTaskDelIns"
    /\ Position(snapshot.live, applied.live_task_id_del) >= 0
    /\ Position(snapshot.live, applied.live_task_id_ins) >= 0

\* the first task with id del was moved to sit immediately before the first
\* task with id ins; the other live tasks keep their order, finished is as it
\* was
MovedBefore ==
    LET del_pos == Position(snapshot.live, applied.live_task_id_del)
        ins_pos == Position(snapshot.live, applied.live_task_id_ins)
    IN
    /\ Len(result.live) = Len(snapshot.live)
    /\ result.finished = snapshot.finished
    /\ \E k \in 0..(Len(result.live) - 2) :
           /\ result.live[k + 1] = snapshot.live[del_pos + 1]
           /\ result.live[k + 2] = snapshot.live[ins_pos + 1]
           /\ Position(result.live, applied.live_task_id_ins) = k + 1
           /\ RemoveAt(result.live, k) = RemoveAt(snapshot.live, del_pos)

\* C11: LiveTaskDelIns{del, ins} with both ids live, whether del_pos < ins_pos
\* or del_pos > ins_pos, moves del's task to sit immediately before the task
\* with id ins; the order of the other live tasks, the length of live and
\* finished are unchanged.
C11_MoveCorrectness ==
    (/\ DelInsBothPresent
     /\ Position(snapshot.live, applied.live_task_id_del)
            # Position(snapshot.live, applied.live_task_id_ins))
        => MovedBefore

\* C11 witness: [a,b,c,d] with del = d, ins = b has become [a,d,b,c]
C11_Witness ==
    /\ applied = LiveTaskDelIns("d", "b")
    /\ snapshot.live = <<LiveTask("a", "x"), LiveTask("b", "x"), LiveTask("c", "x"),
                         LiveTask("d", "x")>>
    /\ result.live = <<LiveTask("a", "x"), LiveTask("d", "x"), LiveTask("b", "x"),
                       LiveTask("c", "x")>>

\***************************************************************************
\* C12  No-op policy
\***************************************************************************

\* the ids of the tasks of a list
Ids(tasks) == {tasks[i].id : i \in 1..Len(tasks)}

\* C12: apply leaves the snapshot unchanged when the operation names a task id
\* that is absent (LiveTaskInsRestore, LiveTaskEdit, LiveTaskDel,
\* FinishedTaskPushComplete, LiveTaskDelIns with either id) and when
\* LiveTaskInsNew has position > len(live); LiveTaskInsNew with
\* position = len(live) appends at the end.
C12_NoOpPolicy ==
    /\ (applied.tag = "LiveTaskInsRestore"
            /\ applied.finished_task_id \notin Ids(snapshot.finished))
        => result = snapshot
    /\ (applied.tag \in {"LiveTaskEdit", "LiveTaskDel", "FinishedTaskPushComplete"}
            /\ applied.live_task_id \notin Ids(snapshot.live))
        => result = snapshot
    /\ (applied.tag = "LiveTaskDelIns"
            /\ \/ applied.live_task_id_del \notin Ids(snapshot.live)
               \/ applied.live_task_id_ins \notin Ids(snapshot.live))
        => result = snapshot
    /\ (applied.tag = "LiveTaskInsNew" /\ applied.position > Len(snapshot.live))
        => result = snapshot
    /\ (applied.tag = "LiveTaskInsNew" /\ applied.position = Len(snapshot.live))
        => /\ result.live =
                  Append(snapshot.live, LiveTask(applied.live_task_id, applied.value))
           /\ result.finished = snapshot.finished

\* C12 witness: LiveTaskInsNew with position = len(live) has appended to a
\* live list of two tasks
C12_Witness ==
    /\ applied.tag = "LiveTaskInsNew"
    /\ Len(snapshot.live) = 2
    /\ applied.position = 2
    /\ Len(result.live) = 3
    /\ result.live[3] = LiveTask(applied.live_task_id, applied.value)

\***************************************************************************
\* C13  Restore semantics
\***************************************************************************

C14_HeartbeatTimeout ==
    /\ heartbeat.pc # "closed" => heartbeat.now - heartbeat.client_last <= 15
    /\ heartbeat.closed_by = "heartbeat" => heartbeat.late

\***************************************************************************
\* C15  Authentication failure has no cell side effect
\***************************************************************************

\* C15: a session whose auth lookup fails (key unknown, or transport failure)
\* closes with code Error and the error's message; the step changes neither
\* the registry nor any cell, checkpoint or operation record, nor who holds a
\* mutex; a session with an unknown key never gets past the lookup.
C15_AuthFailure ==
    [][\A s \in Sessions :
          session[s].pc = "auth" =>
              /\ AuthUser(session[s].api_key) = None
                     => session'[s].pc \in {"auth", "closed", "handshake"}
              /\ session'[s].pc = "closed"
                     => /\ session'[s].close.code = "Error"
                        /\ session'[s].close.description =
                               (IF AuthUser(session[s].api_key) = None
                                THEN "Unauthorized" ELSE "InternalServerError")
                              \/ session'[s].close.description = "InternalServerError"
                        /\ user_worker_data' = user_worker_data
                        /\ checkpoints' = checkpoints
                        /\ operations' = operations
                        /\ registry_mutex' = registry_mutex
                        /\ cell_mutex' = cell_mutex]_vars

\* C15 witness: a session was refused as Unauthorized while a cell holding
\* tasks exists
C15_Witness ==
    \E s \in Sessions, u \in DOMAIN user_worker_data :
        /\ session[s].pc = "closed"
        /\ session[s].close.from = "auth"
        /\ session[s].close.description = "Unauthorized"
        /\ user_worker_data[u].snapshot # EmptySnapshot

\***************************************************************************
\* C16  Session-local errors
\***************************************************************************

\* C16: the step in which a session closes, whatever closes it, leaves every
\* other session as it was (place, receiver, pending snapshot), leaves every
\* cell as it was, and leaves no mutex held by the closed session; a mutex it
\* did not hold is untouched.
C16_SessionLocalErrors ==
    [][\A s \in Sessions :
          (session[s].pc # "closed" /\ session'[s].pc = "closed") =>
              /\ \A t \in Sessions \ {s} : session'[t] = session[t]
              /\ user_worker_data' = user_worker_data
              /\ registry_mutex' # s
              /\ registry_mutex # s => registry_mutex' = registry_mutex
              /\ \A u \in Users :
                     /\ cell_mutex'[u] # s
                     /\ cell_mutex[u] # s => cell_mutex'[u] = cell_mutex[u]]_vars

\* C16 witness: a session was closed by a failed append holding the cell
\* mutex; the other session of the cell, which had received an operation of
\* the closed one, has since taken the mutex and applied an operation
C16_Witness ==
    \E s \in Sessions, t \in Sessions :
        /\ session[s].pc = "closed"
        /\ session[s].close.from = "op_add"
        /\ session[t].pc = "op_send"
        /\ cell_mutex[session[t].user] = t
        /\ \E p \in Range(session[t].seen) : p \notin session[t].mine

\***************************************************************************
\* C17  Lag tolerance without back-pressure
\***************************************************************************

\* the receiver of a joined session has overflowed: more values wait in it
\* than the channel retains
Lagging(s) ==
    /\ session[s].pc = "joined"
    /\ session[s].once = <<>>
    /\ Len(Chan(s)) - session[s].rx + 1 > Capacity

\* C17: a joined session whose receiver has overflowed can take the lag
\* signal, and the ServerUpdate step that takes it leaves the session joined
\* and open, with nothing sent and its receiver at the oldest retained value;
\* it never forwards a skipped value and forwards the later ones in order.
\* A session about to publish can always publish, whatever the receivers
\* hold: its step appends the operation to the channel, frees the cell mutex
\* and returns to the joined loop.
C17_LagTolerance ==
    /\ [](\A s \in Sessions :
             /\ Lagging(s) => ENABLED ServerUpdate(s)
             /\ session[s].pc = "op_send" => ENABLED OpSend(s)
             /\ Joined(s) =>
                    /\ Increasing(session[s].seen)
                    /\ \A p \in session[s].skipped :
                           p < session[s].rx /\ p \notin Range(session[s].seen))
    /\ [][\A s \in Sessions :
             /\ (Lagging(s) /\ ServerUpdate(s))
                    => /\ session'[s].pc = "joined"
                       /\ session'[s].close = NoClose
                       /\ session'[s].out = session[s].out
                       /\ session'[s].rx = Len(Chan(s)) - Capacity + 1
                       /\ session'[s].skipped # session[s].skipped
             /\ (session[s].pc = "op_send" /\ session'[s].pc # "op_send"
                    /\ session'[s].pc # "handshake")
                    => /\ session'[s].pc = "joined"
                       /\ user_worker_data'[session[s].user].updates_tx =
                              Append(Chan(s), session[s].op)
                       /\ cell_mutex'[session[s].user] = None]_vars

\* C17 witness: a session whose receiver lagged past the first operation has
\* stayed joined and forwarded the second
C17_Witness ==
    \E s \in Sessions :
        /\ session[s].pc = "joined"
        /\ session[s].skipped = {1}
        /\ session[s].seen = <<2>>
        /\ Len(session[s].out) = 2

\***************************************************************************
\* C18  Cell lifecycle
\***************************************************************************

\* C18: no user ever has more than one checkpoint, and a joined session's
\* user has a cell; while the process runs, a cell enters the registry only
\* by the step of a session of that user that holds the registry mutex and
\* becomes joined in that step, and a cell in the registry stays there with
\* its checkpoint id and its channel (which only grows), its snapshot
\* changing only by the apply step of a session of that user.
C18_CellLifecycle ==
    /\ [](/\ \A u \in Users : Len(checkpoints[u]) <= 1
          /\ \A s \in Sessions : Joined(s) => session[s].user \in DOMAIN user_worker_data)
    /\ [][~Restart =>
             /\ \A u \in DOMAIN user_worker_data :
                    /\ u \in DOMAIN user_worker_data'
                    /\ user_worker_data'[u].checkpoint_id = user_worker_data[u].checkpoint_id
                    /\ user_worker_data'[u].base = user_worker_data[u].base
                    /\ \/ user_worker_data'[u].updates_tx = user_worker_data[u].updates_tx
                       \/ \E op \in ClientOps :
                              user_worker_data'[u].updates_tx =
                                  Append(user_worker_data[u].updates_tx, op)
                    /\ user_worker_data'[u].snapshot # user_worker_data[u].snapshot
                           => \E s \in Sessions :
                                  /\ session[s].user = u
                                  /\ session[s].pc = "op_apply"
                                  /\ cell_mutex[u] = s
             /\ \A u \in (DOMAIN user_worker_data') \ (DOMAIN user_worker_data) :
                    \E s \in Sessions :
                        /\ session[s].user = u
                        /\ registry_mutex = s
                        /\ session[s].pc = "v_getops"
                        /\ session'[s].pc = "joined"]_vars

\* C18 witness: a cell holds tasks, its user has one checkpoint, and every
\* session has disconnected
C18_Witness ==
    \E u \in DOMAIN user_worker_data :
        /\ user_worker_data[u].snapshot # EmptySnapshot
        /\ Len(checkpoints[u]) = 1
        /\ \A s \in Sessions : session[s].pc = "closed"

\***************************************************************************
\* C19  Single applier
\***************************************************************************

\* the session is between taking the cell mutex and releasing it in
\* handle_ws_client_op
InCriticalSection(s) == session[s].pc \in {"op_add", "op_apply", "op_send"}

\* C19: a session between lock and unlock holds its cell's mutex, and is at
\* the place its progress says: before the append the log, the snapshot and
\* the channel agree; after the append the log is one record ahead of both;
\* after the apply the snapshot has caught up with the log and the channel is
\* one value behind.  While it is there, a step of anybody else changes
\* neither the cell nor its log and joins nobody to the cell.
C19_SingleApplier ==
    /\ [](\A s \in Sessions :
             InCriticalSection(s) =>
                 LET cell == Cell(s)
                     published == cell.base + Len(cell.updates_tx)
                     state(n) == Fold(checkpoint_jsonval(cell.checkpoint_id),
                                      Decode(SubSeq(Log(cell), 1, n)))
                 IN
                 /\ cell_mutex[session[s].user] = s
                 /\ session[s].pc = "op_add"
                        => Len(Log(cell)) = published /\ cell.snapshot = state(published)
                 /\ session[s].pc = "op_apply"
                        => /\ Len(Log(cell)) = published + 1
                           /\ Log(cell)[published + 1] = ToJson(session[s].op)
                           /\ cell.snapshot = state(published)
                 /\ session[s].pc = "op_send"
                        => /\ Len(Log(cell)) = published + 1
                           /\ cell.snapshot = state(published + 1))
    /\ [][\A s \in Sessions :
             (InCriticalSection(s) /\ session'[s] = session[s] /\ ~Restart) =>
                 /\ user_worker_data'[session[s].user] = Cell(s)
                 /\ Log(Cell(s))' = Log(Cell(s))
                 /\ \A t \in Sessions :
                        (session[t].user = session[s].user /\ session[t].pc = "o_lock")
                            => session'[t].pc = "o_lock"]_vars

\* C19 witness: a session has appended and applied and is about to publish,
\* while the other session of the user waits for the cell mutex with an
\* operation of its own
C19_Witness ==
    \E s \in Sessions, t \in Sessions :
        /\ session[s].pc = "op_send"
        /\ session[t].pc = "op_lock"
        /\ session[t].user = session[s].user
        /\ cell_mutex[session[s].user] = s

\***************************************************************************
\* C20  Scope of the registry mutex
\***************************************************************************

\* the session is on the Vacant path with a store call or the connection
\* acquisition ahead or under way
InStoreCall(s) == session[s].pc \in {"v_pool", "v_getcp", "v_addcp", "v_getops"}

\* the session is on the Occupied path and the cell mutex is held by another
WaitsForCell(s) ==
    /\ session[s].pc = "o_lock"
    /\ cell_mutex[session[s].user] # None

\* C20: no session holds the registry mutex while a store call of
\* its own (connection acquisition, checkpoint lookup, checkpoint creation,
\* operation load) is in flight or while it waits for a cell mutex.
C20_RegistryMutexBrief ==
    \A s \in Sessions :
        registry_mutex = s => ~InStoreCall(s) /\ ~WaitsForCell(s)

\***************************************************************************
\* C21  Deadlock freedom
\***************************************************************************

\* places where a connection waits for a mutex or for a pooled connection
WaitPlaces == {"registry", "v_pool", "o_lock", "op_pool", "op_lock"}

\* the registry mutex is held only inside the try block, a cell mutex only
\* inside the block of handle_ws_client_op
LocksReleased ==
    /\ \A s \in LockSessions :
        locks.registry = s => locks.pc[s] \in {"v_pool", "v_store", "o_lock"}
    /\ \A u \in Users : \A s \in LockSessions :
        locks.cell[u] = s => locks.pc[s] = "op_add" /\ locks.user[s] = u

\* some connection can take a step that needs no client
SomeProgress == \E t \in LockSessions : ENABLED LockProgress(t)

\* C21: no lock is held by a connection that left the block that took it;
\* whenever a connection waits for the registry mutex, a cell mutex or a pooled
\* connection, some connection can step without its client; and, store calls
\* returning, a waiting connection eventually waits no more: it holds what it
\* waited for, or pool.get() failed and it closed.
C21_DeadlockFreedom ==
    /\ [](LocksReleased
            /\ ((\E s \in LockSessions : locks.pc[s] \in WaitPlaces) => SomeProgress))
    /\ \A s \in LockSessions :
        (locks.pc[s] \in WaitPlaces) ~> (locks.pc[s] \notin WaitPlaces)

\* one connection is inside its critical section with a pooled connection, a
\* second holds the other pooled connection and waits for the same cell mutex,
\* a third holds the registry mutex and waits for the pool
C21_Witness ==
    \E a, b, c \in LockSessions :
        /\ locks.pc[a] = "op_add"
        /\ locks.pc[b] = "op_lock" /\ locks.user[b] = locks.user[a]
        /\ locks.pc[c] = "v_pool" /\ locks.registry = c

\***************************************************************************
\* C22  Cross-user isolation
\***************************************************************************

\* the steps of handle_ws_client_op that write: append, apply, publish
OpWrites(s) == OpAdd(s) \/ OpApply(s) \/ OpSend(s)

\* the log records of user u: the records under the checkpoint ids of u
UserLog(ops, u) == [c \in {d \in DOMAIN ops : d[1] = u} |-> ops[c]]

\* C22: a step of handle_ws_client_op run by a session of user U appends only
\* under the checkpoint id of U's cell and changes only U's cell; it leaves
\* the log records and the cell (snapshot, channel) of every other user and
\* every local of the sessions of other users, their outbound frames
\* included, as they were; and a frame a session forwards to its client is the
\* OverwriteState of its own join or a value of the channel of its own user's
\* cell.
C22_CrossUserIsolation ==
    [][\A s \in Sessions :
        /\ OpWrites(s) =>
            /\ Cell(s).checkpoint_id[1] = session[s].user
            /\ \A c \in DOMAIN operations' :
                c # Cell(s).checkpoint_id => c \in DOMAIN operations
            /\ \A u \in Users \ {session[s].user} :
                /\ UserLog(operations', u) = UserLog(operations, u)
                /\ u \in DOMAIN user_worker_data =>
                    user_worker_data'[u] = user_worker_data[u]
                /\ \A t \in Sessions :
                    session[t].user = u => session'[t] = session[t]
        /\ (ServerUpdate(s) /\ Len(session'[s].out) > Len(session[s].out)) =>
            \E frame \in {ToJson(OverwriteState(InitialSnapshot(s)))}
                            \cup {ToJson(Chan(s)[i]) : i \in 1..Len(Chan(s))} :
                session'[s].out = Append(session[s].out, frame)]_vars

\* two users have a cell each and a joined session each; the session of one
\* has published an operation, which changed its user's snapshot and log, and
\* the other user's snapshot, log and channel are empty
C22_Witness ==
    \E s, t \in Sessions :
        /\ Joined(s) /\ Joined(t)
        /\ session[s].user # session[t].user
        /\ session[s].mine # {}
        /\ Cell(s).snapshot # EmptySnapshot
        /\ Len(Log(Cell(s))) > 0
        /\ Cell(t).snapshot = EmptySnapshot
        /\ Log(Cell(t)) = <<>>
        /\ Chan(t) = <<>>
        /\ Len(session[t].out) = 1

\***************************************************************************
\* C23  Handshake idle timeout
\***************************************************************************

\* nothing has been done for any user: no checkpoint, no operation, no cell
NothingDone ==
    /\ \A u \in Users : checkpoints[u] = <<>>
    /\ operations = <<>>
    /\ user_worker_data = <<>>

\* C23: a connection still in its handshake loop has had a frame from its
\* client within the last 15 seconds; one closed there by the heartbeat check
\* had a client silent for more than 10 seconds and is closed without a
\* reason; a tick taken in the handshake loop more than 10 seconds after the
\* last ping or pong (after connecting, if there was none) closes; and as long
\* as the loop runs the connection has no user, no auth lookup is in flight,
\* and no checkpoint, operation or cell exists; only a text frame takes the
\* connection to the auth lookup.
C23_HandshakeIdleTimeout ==
    /\ [](/\ heartbeat.pc = "handshake" =>
              /\ heartbeat.now - heartbeat.client_last <= CLIENT_TIMEOUT + HEARTBEAT_INTERVAL
              /\ session[HandshakeSession].pc = "handshake"
              /\ session[HandshakeSession].user = None
              /\ NothingDone
          /\ heartbeat.closed_by = "heartbeat" =>
              /\ heartbeat.late
              /\ heartbeat.now - heartbeat.last_heartbeat > CLIENT_TIMEOUT
              /\ session[HandshakeSession].close =
                     [code |-> "NoReason", description |-> "", from |-> "handshake"]
              /\ NothingDone)
    /\ [][/\ (HandshakeTick
                /\ heartbeat.now - heartbeat.last_heartbeat > CLIENT_TIMEOUT)
              => heartbeat'.closed_by = "heartbeat"
          /\ (session[HandshakeSession].pc = "handshake"
                /\ session'[HandshakeSession].pc = "auth")
              => (heartbeat.inbox # <<>> /\ Head(heartbeat.inbox) = "Text")]_vars

\* the client never sent a frame, was pinged three times and was closed by
\* the heartbeat check at the first tick more than CLIENT_TIMEOUT after the
\* connection was made
C23_Witness ==
    /\ heartbeat.closed_by = "heartbeat"
    /\ heartbeat.client_last = 0
    /\ heartbeat.last_heartbeat = 0
    /\ heartbeat.inbox = <<>>
    /\ heartbeat.pings = 3
    /\ heartbeat.now = CLIENT_TIMEOUT + HEARTBEAT_INTERVAL
    /\ session[HandshakeSession].pc = "closed"

\***************************************************************************
\* C24  last_heartbeat is refreshed by ping and pong only
\***************************************************************************

\* C24: last_heartbeat changes only when the joined loop takes a ping or a
\* pong of the client, and becomes the time of taking it; taking a text
\* operation frame, the handler returning, forwarding a broadcast value and
\* sending a ping leave it as it is; a tick taken more than 10 seconds after
\* last_heartbeat closes the session whatever else the client sent; and a
\* session closed by the heartbeat check had no ping or pong taken in the 10
\* seconds before.
C24_HeartbeatRefresh ==
    /\ [](heartbeat.closed_by = "heartbeat" =>
              heartbeat.now - heartbeat.last_heartbeat > CLIENT_TIMEOUT)
    /\ [][/\ heartbeat'.last_heartbeat # heartbeat.last_heartbeat =>
              /\ heartbeat.pc = "loop"
              /\ heartbeat.inbox # <<>>
              /\ Head(heartbeat.inbox) \in {"Ping", "Pong"}
              /\ heartbeat'.last_heartbeat = heartbeat.now
          /\ (TakeFrame /\ Head(heartbeat.inbox) = "Text") =>
              heartbeat'.last_heartbeat = heartbeat.last_heartbeat
          /\ (HandlerReturns \/ ForwardUpdate \/ HeartbeatTick) =>
              heartbeat'.last_heartbeat = heartbeat.last_heartbeat
          /\ (HeartbeatTick /\ heartbeat.now - heartbeat.last_heartbeat > CLIENT_TIMEOUT) =>
              (heartbeat'.pc = "closed" /\ heartbeat'.closed_by = "heartbeat")]_vars

\* the client submitted operations that were handled, was forwarded a
\* broadcast value and was pinged, never sent a ping or pong, and was closed by
\* the heartbeat check
C24_Witness ==
    /\ heartbeat.closed_by = "heartbeat"
    /\ heartbeat.client_last = 0
    /\ heartbeat.stalled
    /\ heartbeat.forwarded
    /\ heartbeat.pings > 0

====
